---- MODULE Spec2Model ----
(***************************************************************************)
(* Nibble backend: the synchronization rules (src/syncs/*.sync.ts), the    *)
(* concepts they orchestrate (Sessioning, User, Recipe, Annotation,        *)
(* Notebook) and the passthrough configuration, as a state machine.        *)
(*                                                                         *)
(* A trace is one inbound call.  A call to an excluded route appends a     *)
(* Requesting.request entry; the rules whose `when` patterns match are     *)
(* evaluated (`where`), and every surviving frame dispatches the rule's    *)
(* `then` invocation, whose result is appended to the trace's log and may  *)
(* trigger further rules.  A call to an included route runs the concept    *)
(* action directly.                                                        *)
(*                                                                         *)
(* JavaScript objects (action inputs and outputs, frames) are functions    *)
(* from keys to values; an `undefined` property is a key outside the       *)
(* function's domain.  In a frame, the key "x" is the rule variable        *)
(* (symbol) x and the key "'error'" is the plain string property `error`.  *)
(***************************************************************************)
EXTENDS Integers, Sequences, FiniteSets, TLC

\* Number of inbound calls (traces) in one behaviour.
MaxTraces == 2
\* The clock runs from 0 to MaxTime.
MaxTime == 1
\* Lifetime of a session created by createSession (7 days), in clock units.
SessionTTL == 2

VARIABLES
  log,          \* log[t]: the entries of trace t, in append order
  awaiting,     \* rule evaluations suspended in an asynchronous `where`
  pending,      \* dispatched invocations that have not executed yet
  users,        \* User.users:            id -> [username, password]
  sessions,     \* Sessioning.sessions:   id -> [user, expires]
  recipes,      \* Recipe.recipes:        id -> [owner]
  annotations,  \* Annotation.annotations: id -> [author, recipe, text, resolved]
  notebooks,    \* Notebook.notebooks:    id -> [owner, members, recipes]
  now           \* the clock read by `new Date()`

dbvars == <<users, sessions, recipes, annotations, notebooks>>
vars == <<log, awaiting, pending, users, sessions, recipes, annotations, notebooks, now>>

----------------------------------------------------------------------------
\* Objects

EmptyObj == [k \in {} |-> ""]
\* What a stored document holds for a property that was undefined on insert.
Undefined == "undefined"

Get(obj, k) == IF k \in DOMAIN obj THEN obj[k] ELSE Undefined
\* JavaScript `!x` for a string-valued property.
Falsy(obj, k) == k \notin DOMAIN obj \/ obj[k] = ""

Lit(c) == <<"lit", c>>
Var(x) == <<"var", x>>
IsVar(term) == term[1] = "var"

\* Fresh identifiers (freshID): one per kind and trace.
Fresh(kind, t) == kind \o ToString(t)

----------------------------------------------------------------------------
\* Pattern Matcher

\* Unification that does not compare a variable another pattern has bound.
MatchOk_NoJoin(pat, rec, frame) ==
  \A k \in DOMAIN pat :
    /\ k \in DOMAIN rec
    /\ IsVar(pat[k]) \/ rec[k] = pat[k][2]

\* Every constraint of the pattern is met by the record: the field is present,
\* a literal equals it, a variable already bound agrees with it.
MatchOk(pat, rec, frame) ==
  \A k \in DOMAIN pat :
    /\ k \in DOMAIN rec
    /\ IF IsVar(pat[k])
         THEN pat[k][2] \in DOMAIN frame => frame[pat[k][2]] = rec[k]
         ELSE rec[k] = pat[k][2]

MatchBind(pat, rec, frame) ==
  LET vs  == {k \in DOMAIN pat : IsVar(pat[k])}
      new == {pat[k][2] : k \in vs}
  IN [x \in DOMAIN frame \cup new |->
        IF x \in DOMAIN frame THEN frame[x]
        ELSE rec[CHOOSE k \in vs : pat[k][2] = x]]

MatchEntryOk(p, e, frame) ==
  /\ e.action = p.action
  /\ MatchOk(p.input, e.input, frame)
  /\ MatchOk(p.output, e.output, MatchBind(p.input, e.input, frame))

MatchEntryBind(p, e, frame) ==
  MatchBind(p.output, e.output, MatchBind(p.input, e.input, frame))

RECURSIVE MatchFrom(_, _, _, _, _)
MatchFrom(when, tr, a, j, frame) ==
  IF j > Len(when) THEN {frame}
  ELSE IF MatchEntryOk(when[j], tr[a[j]], frame)
       THEN MatchFrom(when, tr, a, j + 1, MatchEntryBind(when[j], tr[a[j]], frame))
       ELSE {}

\* The frames of a rule for the entry appended at position i of trace tr: one
\* per combination of entries of the trace (none later than i, one of them i)
\* that unify with the rule's patterns.
WhenFrames(when, tr, i) ==
  UNION { MatchFrom(when, tr, a, 1, EmptyObj) :
            a \in {b \in [1..Len(when) -> 1..i] : \E j \in 1..Len(when) : b[j] = i} }

RECURSIVE SeqOfSet(_)
SeqOfSet(S) ==
  IF S = {} THEN << >>
  ELSE LET x == CHOOSE y \in S : TRUE IN << x >> \o SeqOfSet(S \ {x})

\* The matches themselves: the combinations of entries that unify.  Each is
\* one frame of the rule's evaluation, also when two of them bind the same
\* values.
Matches(when, tr, i) ==
  {a \in [1..Len(when) -> 1..i] :
     /\ \E j \in 1..Len(when) : a[j] = i
     /\ MatchFrom(when, tr, a, 1, EmptyObj) # {}}

RECURSIVE MatchFrames(_, _, _)
MatchFrames(when, tr, matches) ==
  IF matches = {} THEN << >>
  ELSE LET a == CHOOSE b \in matches : TRUE
       IN SeqOfSet(MatchFrom(when, tr, a, 1, EmptyObj))
            \o MatchFrames(when, tr, matches \ {a})

\* The frames of a rule's evaluation, one per match.
Frames(when, tr, i) == MatchFrames(when, tr, Matches(when, tr, i))

----------------------------------------------------------------------------
\* Concept queries (read-only; each returns a list of rows)

\* Sessioning._getUser: the session exists and has not expired.
Sessioning_getUser(in) ==
  IF Falsy(in, "session")
    THEN << ("error" :> "Session ID must be provided.") >>
  ELSE IF in["session"] \in DOMAIN sessions /\ sessions[in["session"]].expires > now
    THEN << ("user" :> sessions[in["session"]].user) >>
  ELSE << ("error" :> "Session not found or expired.") >>

\* The document a findOne returns: the stored fields and the _id.
RecipeDocOf(r) == [owner |-> recipes[r].owner, id |-> r]

Recipe_getRecipeById(in) ==
  IF Falsy(in, "recipe")
    THEN << ("error" :> "Recipe ID must be provided.") >>
  ELSE IF in["recipe"] \in DOMAIN recipes
    THEN << ("recipe" :> RecipeDocOf(in["recipe"])) >>
  ELSE << ("error" :> "Recipe not found.") >>

NotebookDocOf(n) ==
  [owner |-> notebooks[n].owner, members |-> notebooks[n].members,
   recipes |-> notebooks[n].recipes, id |-> n]

Notebook_getNotebookById(in) ==
  IF "notebook" \in DOMAIN in /\ in["notebook"] \in DOMAIN notebooks
    THEN << ("notebook" :> NotebookDocOf(in["notebook"])) >>
  ELSE << ("error" :> "Notebook not found.") >>

\* Requesting._getRequestById: the persisted request document, whose input is
\* the body the request was made with.
Requesting_getRequestById(in) ==
  IF "request" \in DOMAIN in /\ in["request"] \in 1..Len(log)
    THEN << ("requestDoc" :> [input |-> log[in["request"]][1].input]) >>
    ELSE << ("error" :> "Request not found.") >>

\* Annotation._getAnnotationsForRecipe: find({ recipe }).toArray(), one row per
\* annotation of the recipe.
AnnotationRow(a) ==
  ("annotation" :> [id |-> a, author |-> annotations[a].author,
                    recipe |-> annotations[a].recipe, text |-> annotations[a].text,
                    resolved |-> annotations[a].resolved])

RECURSIVE AnnotationRows(_)
AnnotationRows(ids) ==
  IF ids = {} THEN << >>
  ELSE LET a == CHOOSE x \in ids : TRUE
       IN << AnnotationRow(a) >> \o AnnotationRows(ids \ {a})

Annotation_getAnnotationsForRecipe(in) ==
  AnnotationRows({a \in DOMAIN annotations :
                    "recipe" \in DOMAIN in /\ annotations[a].recipe = in["recipe"]})

RunQuery(q, in) ==
  CASE q = "Sessioning._getUser"       -> Sessioning_getUser(in)
    [] q = "Recipe._getRecipeById"     -> Recipe_getRecipeById(in)
    [] q = "Notebook._getNotebookById" -> Notebook_getNotebookById(in)
    [] q = "Requesting._getRequestById" -> Requesting_getRequestById(in)
    [] q = "Annotation._getAnnotationsForRecipe" -> Annotation_getAnnotationsForRecipe(in)

----------------------------------------------------------------------------
\* Frame Expander

\* The query's arguments, resolved from the frame's bindings.
ResolveIn(inMap, f) ==
  [k \in {x \in DOMAIN inMap : inMap[x] \in DOMAIN f} |-> f[inMap[k]]]

\* One outgoing frame per row: the incoming frame plus the row's fields bound
\* under the output bindings (a field the row lacks binds nothing).
BindRow(f, row, outMap) ==
  LET ks  == {k \in DOMAIN outMap : k \in DOMAIN row}
      new == {outMap[k] : k \in ks}
  IN [x \in DOMAIN f \cup new |->
        IF x \in new THEN row[CHOOSE k \in ks : outMap[k] = x] ELSE f[x]]

\* A query step that keeps only the first row.
RowsToFrames_FirstRow(f, rows, outMap) ==
  [i \in 1..(IF Len(rows) = 0 THEN 0 ELSE 1) |-> BindRow(f, rows[i], outMap)]

RowsToFrames(f, rows, outMap) ==
  [i \in 1..Len(rows) |-> BindRow(f, rows[i], outMap)]

RECURSIVE QueryStep(_, _, _, _)
QueryStep(q, frames, inMap, outMap) ==
  IF frames = <<>> THEN <<>>
  ELSE RowsToFrames(Head(frames), RunQuery(q, ResolveIn(inMap, Head(frames))), outMap)
         \o QueryStep(q, Tail(frames), inMap, outMap)

\* { ...frame, [k]: v }
With(f, k, v) == [x \in DOMAIN f \cup {k} |-> IF x = k THEN v ELSE f[x]]

\* hasErrorInFrame: the frame carries a string under the plain property `error`.
hasErrorInFrame(f) == "'error'" \in DOMAIN f

\* $[a] === ($[doc] as any)?.owner, with undefined === undefined.
IsOwnerOf(f, a, doc) ==
  IF a \in DOMAIN f
    THEN doc \in DOMAIN f /\ f[a] = f[doc].owner
    ELSE doc \notin DOMAIN f

----------------------------------------------------------------------------
\* Rule declarations

Pat(action, input, output) == [action |-> action, input |-> input, output |-> output]
Inv(action, args) == [action |-> action, args |-> args]
\* async: the rule's `where` awaits queries; otherwise it has no `where`, or a
\* synchronous filter.
Rule(name, when, async, then) ==
  [name |-> name, when |-> when, async |-> async, then |-> then]

ReqPat(path, fields) ==
  Pat("Requesting.request",
      ("path" :> Lit(path)) @@ [k \in fields |-> Var(k)],
      ("request" :> Var("request")))

Vars(fields) == [k \in fields |-> Var(k)]

\* --- user_auth.sync.ts

LoginRequest ==
  Rule("LoginRequest",
       << ReqPat("/User/login", {"username", "password"}) >>, FALSE,
       << Inv("User.login", Vars({"username", "password"})) >>)

\* CreateSessionAfterLogin reacting to any outcome of User.login, failed ones
\* included.
CreateSessionAfterLogin_OnAnyOutcome ==
  Rule("CreateSessionAfterLogin",
       << Pat("Requesting.request", ("path" :> Lit("/User/login")), EmptyObj),
          Pat("User.login", EmptyObj, EmptyObj) >>, FALSE,
       << Inv("Sessioning.createSession", Vars({"user"})) >>)

CreateSessionAfterLogin ==
  Rule("CreateSessionAfterLogin",
       << Pat("Requesting.request", ("path" :> Lit("/User/login")), EmptyObj),
          Pat("User.login", EmptyObj, Vars({"user"})) >>, FALSE,
       << Inv("Sessioning.createSession", Vars({"user"})) >>)

\* LoginResponseWithSession answering without the session.
LoginResponseWithSession_NoSession ==
  Rule("LoginResponseWithSession",
       << ReqPat("/User/login", {}),
          Pat("User.login", EmptyObj, Vars({"user"})),
          Pat("Sessioning.createSession", EmptyObj, Vars({"session"})) >>, FALSE,
       << Inv("Requesting.respond", Vars({"request", "user"})) >>)

LoginResponseWithSession ==
  Rule("LoginResponseWithSession",
       << ReqPat("/User/login", {}),
          Pat("User.login", EmptyObj, Vars({"user"})),
          Pat("Sessioning.createSession", EmptyObj, Vars({"session"})) >>, FALSE,
       << Inv("Requesting.respond", Vars({"request", "user", "session"})) >>)

LoginResponseError ==
  Rule("LoginResponseError",
       << ReqPat("/User/login", {}),
          Pat("User.login", EmptyObj, Vars({"error"})) >>, FALSE,
       << Inv("Requesting.respond", Vars({"request", "error"})) >>)

\* --- recipe.sync.ts

CreateRecipeRequest ==
  Rule("CreateRecipeRequest",
       << ReqPat("/Recipe/createRecipe", {"session", "title", "ingredients", "steps"}) >>,
       TRUE,
       << Inv("Recipe.createRecipe", Vars({"owner", "title", "ingredients", "steps"})) >>)

CreateRecipeResponse ==
  Rule("CreateRecipeResponse",
       << ReqPat("/Recipe/createRecipe", {}),
          Pat("Recipe.createRecipe", EmptyObj, Vars({"recipe"})) >>, FALSE,
       << Inv("Requesting.respond", Vars({"request", "recipe"})) >>)

CreateRecipeErrorResponse ==
  Rule("CreateRecipeErrorResponse",
       << ReqPat("/Recipe/createRecipe", {}),
          Pat("Recipe.createRecipe", EmptyObj, Vars({"error"})) >>, FALSE,
       << Inv("Requesting.respond", Vars({"request", "error"})) >>)

CreateRecipeSessionErrorResponse ==
  Rule("CreateRecipeSessionErrorResponse",
       << ReqPat("/Recipe/createRecipe", {}) >>, FALSE,
       << Inv("Requesting.respond", Vars({"request", "error"})) >>)

DeleteRecipeRequest ==
  Rule("DeleteRecipeRequest",
       << ReqPat("/Recipe/deleteRecipe", {"recipe", "session"}) >>, TRUE,
       << Inv("Recipe.deleteRecipe", Vars({"requester", "recipe"})) >>)

\* DeleteRecipeResponse answering one fixed request instead of the one its
\* pattern bound.
DeleteRecipeResponse_FixedRequest ==
  Rule("DeleteRecipeResponse",
       << ReqPat("/Recipe/deleteRecipe", {}),
          Pat("Recipe.deleteRecipe", EmptyObj, EmptyObj) >>, FALSE,
       << Inv("Requesting.respond", ("request" :> Lit(1))) >>)

DeleteRecipeResponse ==
  Rule("DeleteRecipeResponse",
       << ReqPat("/Recipe/deleteRecipe", {}),
          Pat("Recipe.deleteRecipe", EmptyObj, EmptyObj) >>, FALSE,
       << Inv("Requesting.respond", Vars({"request"})) >>)

DeleteRecipeErrorResponse ==
  Rule("DeleteRecipeErrorResponse",
       << ReqPat("/Recipe/deleteRecipe", {}),
          Pat("Recipe.deleteRecipe", EmptyObj, Vars({"error"})) >>, FALSE,
       << Inv("Requesting.respond", Vars({"request", "error"})) >>)

DeleteRecipeCustomErrorResponse ==
  Rule("DeleteRecipeCustomErrorResponse",
       << ReqPat("/Recipe/deleteRecipe", {}) >>, FALSE,
       << Inv("Requesting.respond", Vars({"request", "error"})) >>)

\* CascadeAnnotationDeletion written against the wrong input field name: the
\* variant C8 is tested against.
CascadeAnnotationDeletion_WrongField ==
  Rule("CascadeAnnotationDeletion",
       << Pat("Recipe.deleteRecipe", ("recipeId" :> Var("recipe")), EmptyObj) >>, FALSE,
       << Inv("Annotation.deleteByRecipe", ("recipeId" :> Var("recipe"))) >>)

CascadeAnnotationDeletion ==
  Rule("CascadeAnnotationDeletion",
       << Pat("Recipe.deleteRecipe", Vars({"recipe"}), EmptyObj) >>, FALSE,
       << Inv("Annotation.deleteByRecipe", ("recipeId" :> Var("recipe"))) >>)

UpdateRecipeDetailsRequest ==
  Rule("UpdateRecipeDetailsRequest",
       << ReqPat("/Recipe/updateRecipeDetails", {"session", "recipe"}) >>, TRUE,
       << Inv("Recipe.updateRecipeDetails",
              ("owner" :> Var("requester"))
                @@ Vars({"recipe", "newTitle", "newDescription", "newIngredients",
                         "newSteps"})) >>)

UpdateRecipeDetailsResponse ==
  Rule("UpdateRecipeDetailsResponse",
       << ReqPat("/Recipe/updateRecipeDetails", {}),
          Pat("Recipe.updateRecipeDetails", EmptyObj, EmptyObj) >>, FALSE,
       << Inv("Requesting.respond", Vars({"request"})) >>)

UpdateRecipeDetailsErrorResponse ==
  Rule("UpdateRecipeDetailsErrorResponse",
       << ReqPat("/Recipe/updateRecipeDetails", {}),
          Pat("Recipe.updateRecipeDetails", EmptyObj, Vars({"error"})) >>, FALSE,
       << Inv("Requesting.respond", Vars({"request", "error"})) >>)

UpdateRecipeDetailsCustomErrorResponse ==
  Rule("UpdateRecipeDetailsCustomErrorResponse",
       << ReqPat("/Recipe/updateRecipeDetails", {}) >>, FALSE,
       << Inv("Requesting.respond", Vars({"request", "error"})) >>)

ApplyDraftRequest ==
  Rule("ApplyDraftRequest",
       << ReqPat("/Recipe/applyDraft", {"session", "recipe", "draftDetails"}) >>, TRUE,
       << Inv("Recipe.applyDraft",
              ("owner" :> Var("requester")) @@ Vars({"recipe", "draftDetails"})) >>)

ApplyDraftResponse ==
  Rule("ApplyDraftResponse",
       << ReqPat("/Recipe/applyDraft", {}),
          Pat("Recipe.applyDraft", EmptyObj, EmptyObj) >>, FALSE,
       << Inv("Requesting.respond", Vars({"request"})) >>)

ApplyDraftErrorResponse ==
  Rule("ApplyDraftErrorResponse",
       << ReqPat("/Recipe/applyDraft", {}),
          Pat("Recipe.applyDraft", EmptyObj, Vars({"error"})) >>, FALSE,
       << Inv("Requesting.respond", Vars({"request", "error"})) >>)

ApplyDraftCustomErrorResponse ==
  Rule("ApplyDraftCustomErrorResponse",
       << ReqPat("/Recipe/applyDraft", {}) >>, FALSE,
       << Inv("Requesting.respond", Vars({"request", "error"})) >>)

\* --- annotation.sync.ts

\* AnnotateRequest as it was before the session lookup was introduced, taking
\* the author from the request body: the variant C4 is tested against.
AnnotateRequest_TrustsClient ==
  Rule("AnnotateRequest",
       << Pat("Requesting.request",
              ("path" :> Lit("/Annotation/annotate")) @@ ("author" :> Var("claimed"))
                @@ Vars({"session", "recipe", "targetKind", "index", "text"}),
              ("request" :> Var("request"))) >>, TRUE,
       << Inv("Annotation.annotate",
              ("author" :> Var("claimed"))
                @@ Vars({"recipe", "targetKind", "index", "text"})) >>)

AnnotateRequest ==
  Rule("AnnotateRequest",
       << ReqPat("/Annotation/annotate",
                 {"session", "recipe", "targetKind", "index", "text"}) >>, TRUE,
       << Inv("Annotation.annotate",
              Vars({"author", "recipe", "targetKind", "index", "text"})) >>)

AnnotateResponse ==
  Rule("AnnotateResponse",
       << ReqPat("/Annotation/annotate", {}),
          Pat("Annotation.annotate", EmptyObj, Vars({"annotation"})) >>, FALSE,
       << Inv("Requesting.respond", Vars({"request", "annotation"})) >>)

AnnotateResponseError ==
  Rule("AnnotateResponseError",
       << ReqPat("/Annotation/annotate", {}),
          Pat("Annotation.annotate", EmptyObj, Vars({"error"})) >>, FALSE,
       << Inv("Requesting.respond", Vars({"request", "error"})) >>)

AnnotateSessionErrorResponse ==
  Rule("AnnotateSessionErrorResponse",
       << ReqPat("/Annotation/annotate", {}) >>, FALSE,
       << Inv("Requesting.respond", Vars({"request", "error"})) >>)

EditAnnotationRequest ==
  Rule("EditAnnotationRequest",
       << ReqPat("/Annotation/editAnnotation", {"session", "annotation", "newText"}) >>, TRUE,
       << Inv("Annotation.editAnnotation", Vars({"author", "annotation", "newText"})) >>)

EditAnnotationResponse ==
  Rule("EditAnnotationResponse",
       << ReqPat("/Annotation/editAnnotation", {}),
          Pat("Annotation.editAnnotation", EmptyObj, EmptyObj) >>, FALSE,
       << Inv("Requesting.respond", Vars({"request"})) >>)

EditAnnotationResponseError ==
  Rule("EditAnnotationResponseError",
       << ReqPat("/Annotation/editAnnotation", {}),
          Pat("Annotation.editAnnotation", EmptyObj, Vars({"error"})) >>, FALSE,
       << Inv("Requesting.respond", Vars({"request", "error"})) >>)

EditAnnotationSessionErrorResponse ==
  Rule("EditAnnotationSessionErrorResponse",
       << ReqPat("/Annotation/editAnnotation", {}) >>, FALSE,
       << Inv("Requesting.respond", Vars({"request", "error"})) >>)

ResolveAnnotationRequest ==
  Rule("ResolveAnnotationRequest",
       << ReqPat("/Annotation/resolveAnnotation", {"session", "annotation", "resolved"}) >>,
       TRUE,
       << Inv("Annotation.resolveAnnotation", Vars({"resolver", "annotation", "resolved"})) >>)

ResolveAnnotationResponse ==
  Rule("ResolveAnnotationResponse",
       << ReqPat("/Annotation/resolveAnnotation", {}),
          Pat("Annotation.resolveAnnotation", EmptyObj, EmptyObj) >>, FALSE,
       << Inv("Requesting.respond", Vars({"request"})) >>)

ResolveAnnotationResponseError ==
  Rule("ResolveAnnotationResponseError",
       << ReqPat("/Annotation/resolveAnnotation", {}),
          Pat("Annotation.resolveAnnotation", EmptyObj, Vars({"error"})) >>, FALSE,
       << Inv("Requesting.respond", Vars({"request", "error"})) >>)

ResolveAnnotationSessionErrorResponse ==
  Rule("ResolveAnnotationSessionErrorResponse",
       << ReqPat("/Annotation/resolveAnnotation", {}) >>, FALSE,
       << Inv("Requesting.respond", Vars({"request", "error"})) >>)

DeleteAnnotationRequest ==
  Rule("DeleteAnnotationRequest",
       << ReqPat("/Annotation/deleteAnnotation", {"session", "annotation"}) >>, TRUE,
       << Inv("Annotation.deleteAnnotation", Vars({"author", "annotation"})) >>)

DeleteAnnotationResponse ==
  Rule("DeleteAnnotationResponse",
       << ReqPat("/Annotation/deleteAnnotation", {}),
          Pat("Annotation.deleteAnnotation", EmptyObj, EmptyObj) >>, FALSE,
       << Inv("Requesting.respond", Vars({"request"})) >>)

DeleteAnnotationResponseError ==
  Rule("DeleteAnnotationResponseError",
       << ReqPat("/Annotation/deleteAnnotation", {}),
          Pat("Annotation.deleteAnnotation", EmptyObj, Vars({"error"})) >>, FALSE,
       << Inv("Requesting.respond", Vars({"request", "error"})) >>)

DeleteAnnotationSessionErrorResponse ==
  Rule("DeleteAnnotationSessionErrorResponse",
       << ReqPat("/Annotation/deleteAnnotation", {}) >>, FALSE,
       << Inv("Requesting.respond", Vars({"request", "error"})) >>)

\* --- notebook.sync.ts

CreateNotebookRequest_SuccessPath ==
  Rule("CreateNotebookRequest_SuccessPath",
       << ReqPat("/Notebook/createNotebook", {"session", "title", "description"}) >>,
       TRUE,
       << Inv("Notebook.createNotebook", Vars({"owner", "title", "description"})) >>)

CreateNotebookRequest_PreconditionError ==
  Rule("CreateNotebookRequest_PreconditionError",
       << ReqPat("/Notebook/createNotebook", {"session"}) >>, TRUE,
       << Inv("Requesting.respond", Vars({"request", "error"})) >>)

CreateNotebookResponse_Success ==
  Rule("CreateNotebookResponse_Success",
       << ReqPat("/Notebook/createNotebook", {}),
          Pat("Notebook.createNotebook", EmptyObj, Vars({"notebook"})) >>, FALSE,
       << Inv("Requesting.respond", Vars({"request", "notebook"})) >>)

CreateNotebookResponse_Error ==
  Rule("CreateNotebookResponse_Error",
       << ReqPat("/Notebook/createNotebook", {}),
          Pat("Notebook.createNotebook", EmptyObj, Vars({"error"})) >>, FALSE,
       << Inv("Requesting.respond", Vars({"request", "error"})) >>)

InviteMemberRequest_SuccessPath ==
  Rule("InviteMemberRequest_SuccessPath",
       << ReqPat("/Notebook/inviteMember", {"member", "notebook", "session"}) >>, TRUE,
       << Inv("Notebook.inviteMember", ("owner" :> Var("requesterUser")) @@ Vars({"member", "notebook"})) >>)

InviteMemberRequest_PreconditionError ==
  Rule("InviteMemberRequest_PreconditionError",
       << ReqPat("/Notebook/inviteMember", {"member", "notebook", "session"}) >>, TRUE,
       << Inv("Requesting.respond", Vars({"request", "error"})) >>)

InviteMemberResponse_Success ==
  Rule("InviteMemberResponse_Success",
       << ReqPat("/Notebook/inviteMember", {}),
          Pat("Notebook.inviteMember", EmptyObj, EmptyObj) >>, FALSE,
       << Inv("Requesting.respond",
              Vars({"request"}) @@ ("status" :> Lit("Member invited successfully."))) >>)

InviteMemberResponse_Error ==
  Rule("InviteMemberResponse_Error",
       << ReqPat("/Notebook/inviteMember", {}),
          Pat("Notebook.inviteMember", EmptyObj, Vars({"error"})) >>, FALSE,
       << Inv("Requesting.respond", Vars({"request", "error"})) >>)

ShareRecipeRequest_SuccessPath ==
  Rule("ShareRecipeRequest_SuccessPath",
       << ReqPat("/Notebook/shareRecipe", {"notebook", "recipe", "session"}) >>, TRUE,
       << Inv("Notebook.shareRecipe", ("sharer" :> Var("sharer")) @@ Vars({"notebook", "recipe"})) >>)

ShareRecipeRequest_PreconditionError ==
  Rule("ShareRecipeRequest_PreconditionError",
       << ReqPat("/Notebook/shareRecipe", {}) >>, FALSE,
       << Inv("Requesting.respond", Vars({"request", "error"})) >>)

ShareRecipeResponse_Success ==
  Rule("ShareRecipeResponse_Success",
       << ReqPat("/Notebook/shareRecipe", {}),
          Pat("Notebook.shareRecipe", EmptyObj, EmptyObj) >>, FALSE,
       << Inv("Requesting.respond",
              Vars({"request"}) @@ ("status" :> Lit("Recipe shared successfully."))) >>)

ShareRecipeResponse_Error ==
  Rule("ShareRecipeResponse_Error",
       << ReqPat("/Notebook/shareRecipe", {}),
          Pat("Notebook.shareRecipe", EmptyObj, Vars({"error"})) >>, FALSE,
       << Inv("Requesting.respond", Vars({"request", "error"})) >>)

UnshareRecipeRequest_SuccessPath ==
  Rule("UnshareRecipeRequest_SuccessPath",
       << ReqPat("/Notebook/unshareRecipe", {"notebook", "recipe", "session"}) >>, TRUE,
       << Inv("Notebook.unshareRecipe", ("requester" :> Var("requester")) @@ Vars({"notebook", "recipe"})) >>)

UnshareRecipeRequest_PreconditionError ==
  Rule("UnshareRecipeRequest_PreconditionError",
       << ReqPat("/notebooks/:notebookId/unshare", {}) >>, FALSE,
       << Inv("Requesting.respond", Vars({"request", "error"})) >>)

UnshareRecipeResponse_Success ==
  Rule("UnshareRecipeResponse_Success",
       << ReqPat("/Notebook/unshareRecipe", {}),
          Pat("Notebook.unshareRecipe", EmptyObj, EmptyObj) >>, FALSE,
       << Inv("Requesting.respond",
              Vars({"request"}) @@ ("status" :> Lit("Recipe unshared successfully."))) >>)

UnshareRecipeResponse_Error ==
  Rule("UnshareRecipeResponse_Error",
       << ReqPat("/Notebook/unshareRecipe", {}),
          Pat("Notebook.unshareRecipe", EmptyObj, Vars({"error"})) >>, FALSE,
       << Inv("Requesting.respond", Vars({"request", "error"})) >>)

RemoveMemberRequest_SuccessPath ==
  Rule("RemoveMemberRequest_SuccessPath",
       << ReqPat("/Notebook/removeMember", {"member", "notebook", "session"}) >>, TRUE,
       << Inv("Notebook.removeMember", ("owner" :> Var("requesterUser")) @@ Vars({"member", "notebook"})) >>)

RemoveMemberRequest_PreconditionError ==
  Rule("RemoveMemberRequest_PreconditionError",
       << ReqPat("/notebooks/:notebookId/removeMember", {}) >>, FALSE,
       << Inv("Requesting.respond", Vars({"request", "error"})) >>)

RemoveMemberResponse_Success ==
  Rule("RemoveMemberResponse_Success",
       << ReqPat("/Notebook/removeMember", {}),
          Pat("Notebook.removeMember", EmptyObj, EmptyObj) >>, FALSE,
       << Inv("Requesting.respond",
              Vars({"request"}) @@ ("status" :> Lit("Member removed successfully."))) >>)

RemoveMemberResponse_Error ==
  Rule("RemoveMemberResponse_Error",
       << ReqPat("/Notebook/removeMember", {}),
          Pat("Notebook.removeMember", EmptyObj, Vars({"error"})) >>, FALSE,
       << Inv("Requesting.respond", Vars({"request", "error"})) >>)

DeleteNotebookRequest_SuccessPath ==
  Rule("DeleteNotebookRequest_SuccessPath",
       << ReqPat("/Notebook/deleteNotebook", {"notebook", "session"}) >>, TRUE,
       << Inv("Notebook.deleteNotebook", ("owner" :> Var("requesterUser")) @@ Vars({"notebook"})) >>)

DeleteNotebookRequest_PreconditionError ==
  Rule("DeleteNotebookRequest_PreconditionError",
       << ReqPat("/notebooks/:notebookId/delete", {}) >>, FALSE,
       << Inv("Requesting.respond", Vars({"request", "error"})) >>)

DeleteNotebookResponse_Success ==
  Rule("DeleteNotebookResponse_Success",
       << ReqPat("/Notebook/deleteNotebook", {}),
          Pat("Notebook.deleteNotebook", EmptyObj, EmptyObj) >>, FALSE,
       << Inv("Requesting.respond",
              Vars({"request"}) @@ ("status" :> Lit("Notebook deleted successfully."))) >>)

DeleteNotebookResponse_Error ==
  Rule("DeleteNotebookResponse_Error",
       << ReqPat("/Notebook/deleteNotebook", {}),
          Pat("Notebook.deleteNotebook", EmptyObj, Vars({"error"})) >>, FALSE,
       << Inv("Requesting.respond", Vars({"request", "error"})) >>)

\* The process-wide rule registry.
Rules ==
  { LoginRequest, CreateSessionAfterLogin, LoginResponseWithSession, LoginResponseError,
    CreateRecipeRequest, CreateRecipeResponse, CreateRecipeErrorResponse,
    CreateRecipeSessionErrorResponse,
    DeleteRecipeRequest, DeleteRecipeResponse, DeleteRecipeErrorResponse,
    DeleteRecipeCustomErrorResponse, CascadeAnnotationDeletion,
    AnnotateRequest, AnnotateResponse, AnnotateResponseError,
    AnnotateSessionErrorResponse,
    CreateNotebookRequest_SuccessPath, CreateNotebookRequest_PreconditionError,
    UpdateRecipeDetailsRequest, UpdateRecipeDetailsResponse,
    UpdateRecipeDetailsErrorResponse, UpdateRecipeDetailsCustomErrorResponse,
    ApplyDraftRequest, ApplyDraftResponse, ApplyDraftErrorResponse,
    ApplyDraftCustomErrorResponse,
    ResolveAnnotationRequest, ResolveAnnotationResponse, ResolveAnnotationResponseError,
    ResolveAnnotationSessionErrorResponse,
    EditAnnotationRequest, EditAnnotationResponse, EditAnnotationResponseError,
    EditAnnotationSessionErrorResponse, DeleteAnnotationRequest, DeleteAnnotationResponse,
    DeleteAnnotationResponseError, DeleteAnnotationSessionErrorResponse,
    CreateNotebookResponse_Success, CreateNotebookResponse_Error,
    InviteMemberRequest_SuccessPath, InviteMemberRequest_PreconditionError,
    InviteMemberResponse_Success, InviteMemberResponse_Error,
    ShareRecipeRequest_SuccessPath, ShareRecipeRequest_PreconditionError,
    ShareRecipeResponse_Success, ShareRecipeResponse_Error,
    UnshareRecipeRequest_SuccessPath, UnshareRecipeRequest_PreconditionError,
    UnshareRecipeResponse_Success, UnshareRecipeResponse_Error,
    RemoveMemberRequest_SuccessPath, RemoveMemberRequest_PreconditionError,
    RemoveMemberResponse_Success, RemoveMemberResponse_Error,
    DeleteNotebookRequest_SuccessPath, DeleteNotebookRequest_PreconditionError,
    DeleteNotebookResponse_Success, DeleteNotebookResponse_Error }

----------------------------------------------------------------------------
\* `where` clauses.  Each takes the frames the matcher produced (frames[1] is
\* the code's frames[0]) and returns the frames that reach `then`.

\* The credential lookup with its result bound under the variable that already
\* holds the session token.
GetUserInto_SameVariable(frames, v) ==
  QueryStep("Sessioning._getUser", frames, ("session" :> "session"), ("user" :> "session"))

GetUserInto(frames, v) ==
  QueryStep("Sessioning._getUser", frames, ("session" :> "session"), ("user" :> v))

GetRecipeInto(frames, v) ==
  QueryStep("Recipe._getRecipeById", frames, ("recipe" :> "recipe"), ("recipe" :> v))

CreateRecipeRequest_where(frames) ==
  LET originalFrame == frames[1]
      queried  == GetUserInto(frames, "owner")
      filtered == SelectSeq(queried, LAMBDA f : "owner" \in DOMAIN f)
  IN IF Len(filtered) = 0
       THEN << With(originalFrame, "error", "Session invalid or expired.") >>
       ELSE filtered

CreateRecipeSessionErrorResponse_where(frames) ==
  SelectSeq(frames, LAMBDA f : Get(f, "error") = "Session invalid or expired.")

\* Step 3 of DeleteRecipeRequest: the frames of `frames` whose requester is the
\* recipe's owner.
DeleteRecipeRequest_filter(frames) ==
  SelectSeq(frames, LAMBDA f : IsOwnerOf(f, "requester", "recipeDoc"))

DeleteRecipeRequest_where(frames) ==
  LET originalFrame == frames[1]
      withRequester == GetUserInto(frames, "requester")
  IN IF Len(withRequester) = 0
       THEN << With(originalFrame, "'error'", "Invalid session") >>
     ELSE
       LET frameAfterRequester == withRequester[1]
           withRecipe == GetRecipeInto(withRequester, "recipeDoc")
       IN IF Len(withRecipe) = 0
            THEN << With(frameAfterRequester, "'error'", "Recipe not found") >>
          ELSE
            LET owned == DeleteRecipeRequest_filter(withRecipe)
            IN IF Len(owned) = 0
                 THEN << With(frameAfterRequester, "'error'",
                              "Unauthorized to delete this recipe") >>
                 ELSE owned

DeleteRecipeCustomErrorResponse_where(frames) ==
  SelectSeq(frames, LAMBDA f :
    Get(f, "error") \in {"Invalid session", "Recipe not found",
                         "Unauthorized to delete this recipe"})

AnnotateRequest_where(frames) ==
  LET originalFrame == frames[1]
      queried == GetUserInto(frames, "author")
  IN IF Len(queried) = 0
       THEN << With(originalFrame, "'error'", "Invalid session") >>
       ELSE queried

AnnotateSessionErrorResponse_where(frames) ==
  SelectSeq(frames, LAMBDA f : Get(f, "error") = "Invalid session")

\* UpdateRecipeDetailsRequest.where, last part: the ownership check, then the
\* optional fields of the request's payload set on (or deleted from) the frame.
OptionalFields == {"newTitle", "newDescription", "newIngredients", "newSteps"}

WithOptional(f, requestInput) ==
  [k \in (DOMAIN f \ OptionalFields) \cup (OptionalFields \cap DOMAIN requestInput) |->
     IF k \in OptionalFields THEN requestInput[k] ELSE f[k]]

UpdateRecipeDetails_final(owned, originalFrame, requestInput) ==
  IF Len(owned) = 0
    THEN << With(originalFrame, "'error'", "Unauthorized to update this recipe") >>
    ELSE << WithOptional(owned[1], requestInput) >>

UpdateRecipeDetails_ownership(withRecipe, originalFrame, requestInput) ==
  IF Len(withRecipe) = 0
    THEN << With(originalFrame, "'error'", "Recipe not found") >>
    ELSE UpdateRecipeDetails_final(DeleteRecipeRequest_filter(withRecipe),
                                   originalFrame, requestInput)

UpdateRecipeDetails_recipe(withRequester, originalFrame, requestInput) ==
  IF Len(withRequester) = 0
    THEN << With(originalFrame, "'error'", "Invalid session") >>
    ELSE UpdateRecipeDetails_ownership(GetRecipeInto(withRequester, "recipeDoc"),
                                       originalFrame, requestInput)

UpdateRecipeDetails_session(withDoc, originalFrame) ==
  IF Len(withDoc) = 0
    THEN << With(originalFrame, "'error'", "Original request not found") >>
    ELSE UpdateRecipeDetails_recipe(
           GetUserInto(withDoc, "requester"), originalFrame,
           IF "requestDoc" \in DOMAIN withDoc[1]
             THEN withDoc[1]["requestDoc"].input ELSE EmptyObj)

UpdateRecipeDetailsRequest_where(frames) ==
  UpdateRecipeDetails_session(
    QueryStep("Requesting._getRequestById", frames, ("request" :> "request"),
              ("requestDoc" :> "requestDoc")),
    frames[1])

UpdateRecipeDetailsCustomErrorResponse_where(frames) ==
  SelectSeq(frames, LAMBDA f :
    Get(f, "error") \in {"Invalid session", "Recipe not found",
                         "Unauthorized to update this recipe",
                         "Original request not found"})

ApplyDraft_ownership(owned, frameAfterRequester) ==
  IF Len(owned) = 0
    THEN << With(frameAfterRequester, "'error'",
                 "Unauthorized to apply draft to this recipe") >>
    ELSE owned

ApplyDraft_recipe(withRecipe, frameAfterRequester) ==
  IF Len(withRecipe) = 0
    THEN << With(frameAfterRequester, "'error'", "Recipe not found") >>
    ELSE ApplyDraft_ownership(DeleteRecipeRequest_filter(withRecipe), frameAfterRequester)

ApplyDraft_session(withRequester, originalFrame) ==
  IF Len(withRequester) = 0
    THEN << With(originalFrame, "'error'", "Invalid session") >>
    ELSE ApplyDraft_recipe(GetRecipeInto(withRequester, "recipeDoc"), withRequester[1])

ApplyDraftRequest_where(frames) ==
  ApplyDraft_session(GetUserInto(frames, "requester"), frames[1])

ApplyDraftCustomErrorResponse_where(frames) ==
  SelectSeq(frames, LAMBDA f :
    Get(f, "error") \in {"Invalid session", "Recipe not found",
                         "Unauthorized to apply draft to this recipe"})

\* EditAnnotationRequest and DeleteAnnotationRequest authenticate as
\* AnnotateRequest does.
EditAnnotationRequest_where(frames) ==
  LET originalFrame == frames[1]
      queried == GetUserInto(frames, "author")
  IN IF Len(queried) = 0
       THEN << With(originalFrame, "'error'", "Invalid session") >>
       ELSE queried

ResolveAnnotationRequest_where(frames) ==
  LET originalFrame == frames[1]
      queried == GetUserInto(frames, "resolver")
  IN IF Len(queried) = 0
       THEN << With(originalFrame, "'error'", "Invalid session") >>
       ELSE queried

ResolveAnnotationSessionErrorResponse_where(frames) ==
  SelectSeq(frames, LAMBDA f : Get(f, "error") = "Invalid session")

DeleteAnnotationRequest_where(frames) ==
  LET originalFrame == frames[1]
      queried == GetUserInto(frames, "author")
  IN IF Len(queried) = 0
       THEN << With(originalFrame, "'error'", "Invalid session") >>
       ELSE queried

EditAnnotationSessionErrorResponse_where(frames) ==
  SelectSeq(frames, LAMBDA f : Get(f, "error") = "Invalid session")

DeleteAnnotationSessionErrorResponse_where(frames) ==
  SelectSeq(frames, LAMBDA f : Get(f, "error") = "Invalid session")

CreateNotebookRequest_SuccessPath_where(frames) ==
  SelectSeq(GetUserInto(frames, "owner"),
            LAMBDA f : "owner" \in DOMAIN f /\ ~hasErrorInFrame(f))

CreateNotebookRequest_PreconditionError_where(frames) ==
  LET originalRequestFrame == frames[1]
      ownerFrames == GetUserInto(frames, "dummyUser")
  IN IF Len(ownerFrames) = 0 \/ hasErrorInFrame(ownerFrames[1])
       THEN << With(originalRequestFrame, "error",
                    IF Len(ownerFrames) = 0
                      THEN "Session invalid or user not found."
                      ELSE ownerFrames[1]["'error'"]) >>
       ELSE << >>

GetNotebookInto(frames, v) ==
  QueryStep("Notebook._getNotebookById", frames, ("notebook" :> "notebook"),
            ("notebook" :> v))

\* ($[doc] as any)?.members.includes($[a])
IsMemberOf(f, a, doc) ==
  doc \in DOMAIN f /\ a \in DOMAIN f /\ f[a] \in f[doc].members

\* frameWith(originalFrame, { error: msg }) wrapped in new Frames(...)
ErrorFrames(originalFrame, msg) == << With(originalFrame, "'error'", msg) >>

\* frames.length === 0 || hasErrorInFrame(frames[0])
QueryFailed(frames) == Len(frames) = 0 \/ hasErrorInFrame(frames[1])

\* One lookup step of a `where`: the frames it produced, or the frames the
\* function returns at once (onFail) when the step's check fails.
Checked(originalFrame, frames, onFail) ==
  [failed |-> QueryFailed(frames),
   frames |-> IF QueryFailed(frames) THEN onFail ELSE frames,
   orig   |-> originalFrame]

\* frames.filter(($) => $[v] !== undefined && !hasErrorInFrame($))
BoundIn(frames, v) ==
  SelectSeq(frames, LAMBDA f : v \in DOMAIN f /\ ~hasErrorInFrame(f))

\* $[requesterUser] === ($[notebookDoc] as any)?.owner
NotebookOwner_filter(frames) ==
  SelectSeq(frames, LAMBDA f : IsOwnerOf(f, "requesterUser", "notebookDoc"))

\* InviteMemberRequest_SuccessPath, step 3 (ownership) after step 2's check.
InviteMember_ownership(notebookFrames) ==
  IF Len(notebookFrames) = 0 THEN << >> ELSE NotebookOwner_filter(notebookFrames)

\* Step 2 (the notebook) after step 1's check.
InviteMember_notebook(authenticatedFrames) ==
  IF Len(authenticatedFrames) = 0 THEN << >>
  ELSE InviteMember_ownership(
         BoundIn(GetNotebookInto(authenticatedFrames, "notebookDoc"), "notebookDoc"))

InviteMemberRequest_SuccessPath_where(frames) ==
  InviteMember_notebook(BoundIn(GetUserInto(frames, "requesterUser"), "requesterUser"))

\* InviteMemberRequest_PreconditionError binds the variable `error`.
InviteMemberError_ownership(looked) ==
  IF looked.failed THEN looked.frames
  ELSE IF Len(NotebookOwner_filter(looked.frames)) = 0
    THEN << With(looked.orig, "error", "Only the notebook owner can invite members.") >>
  ELSE << >>

InviteMemberError_notebook(looked) ==
  IF looked.failed THEN looked
  ELSE Checked(looked.orig, GetNotebookInto(looked.frames, "notebookDoc"),
               << With(looked.orig, "error", "Notebook not found.") >>)

InviteMemberRequest_PreconditionError_where(frames) ==
  InviteMemberError_ownership(InviteMemberError_notebook(
    Checked(frames[1], GetUserInto(<< frames[1] >>, "requesterUser"),
            << With(frames[1], "error", "Session invalid or user not found.") >>)))

\* Lookup steps shared by the success paths of share, unshare, removeMember
\* and deleteNotebook.
LookupUser(frames, principal) ==
  Checked(frames[1], GetUserInto(frames, principal),
          ErrorFrames(frames[1], "Session invalid or user not found."))

LookupRecipe(looked) ==
  IF looked.failed THEN looked
  ELSE Checked(looked.orig, GetRecipeInto(looked.frames, "recipeDoc"),
               ErrorFrames(looked.orig, "Recipe not found."))

LookupNotebook(looked) ==
  IF looked.failed THEN looked
  ELSE Checked(looked.orig, GetNotebookInto(looked.frames, "notebookDoc"),
               ErrorFrames(looked.orig, "Notebook not found."))

\* The function's last step: the frames the authorization filter kept, or the
\* original frame carrying the denial.
Authorize(looked, kept, denial) ==
  IF looked.failed THEN looked.frames
  ELSE IF Len(kept) = 0 THEN ErrorFrames(looked.orig, denial)
  ELSE kept

\* The frames for which the authorization filter was evaluated and held.
Held(looked, kept) == IF looked.failed THEN << >> ELSE kept

RecipeNotebookLookup(frames, principal) ==
  LookupNotebook(LookupRecipe(LookupUser(frames, principal)))

NotebookLookup(frames) == LookupNotebook(LookupUser(frames, "requesterUser"))

\* Step 4 of ShareRecipeRequest_SuccessPath: recipe owner OR notebook member.
ShareRecipeRequest_filter(frames) ==
  SelectSeq(frames, LAMBDA f :
    IsOwnerOf(f, "sharer", "recipeDoc") \/ IsMemberOf(f, "sharer", "notebookDoc"))

ShareRecipe_authorize(looked) ==
  Authorize(looked, ShareRecipeRequest_filter(looked.frames),
            "Only the recipe owner or notebook members can share this recipe.")

ShareRecipeRequest_SuccessPath_where(frames) ==
  ShareRecipe_authorize(RecipeNotebookLookup(frames, "sharer"))

ShareRecipe_held(looked) == Held(looked, ShareRecipeRequest_filter(looked.frames))

\* Step 4 of UnshareRecipeRequest_SuccessPath: recipe owner OR notebook owner.
UnshareRecipeRequest_filter(frames) ==
  SelectSeq(frames, LAMBDA f :
    IsOwnerOf(f, "requester", "recipeDoc") \/ IsOwnerOf(f, "requester", "notebookDoc"))

UnshareRecipe_authorize(looked) ==
  Authorize(looked, UnshareRecipeRequest_filter(looked.frames),
            "Only the recipe owner or notebook owner can unshare this recipe.")

UnshareRecipeRequest_SuccessPath_where(frames) ==
  UnshareRecipe_authorize(RecipeNotebookLookup(frames, "requester"))

UnshareRecipe_held(looked) == Held(looked, UnshareRecipeRequest_filter(looked.frames))

RemoveMember_authorize(looked) ==
  Authorize(looked, NotebookOwner_filter(looked.frames),
            "Only the notebook owner can remove members.")

RemoveMemberRequest_SuccessPath_where(frames) ==
  RemoveMember_authorize(NotebookLookup(frames))

DeleteNotebook_authorize(looked) ==
  Authorize(looked, NotebookOwner_filter(looked.frames),
            "Only the notebook owner can delete the notebook.")

DeleteNotebookRequest_SuccessPath_where(frames) ==
  DeleteNotebook_authorize(NotebookLookup(frames))

NotebookOwner_held(looked) == Held(looked, NotebookOwner_filter(looked.frames))

\* The precondition-error rules of share, unshare, removeMember and
\* deleteNotebook: the frames whose variable `error` holds one of msgs.
ErrorIn(frames, msgs) == SelectSeq(frames, LAMBDA f : Get(f, "error") \in msgs)

ShareRecipeRequest_PreconditionError_where(frames) ==
  ErrorIn(frames, {"Session invalid or user not found.", "Recipe not found.",
                   "Notebook not found.",
                   "Only the recipe owner or notebook members can share this recipe."})

UnshareRecipeRequest_PreconditionError_where(frames) ==
  ErrorIn(frames, {"Session invalid or user not found.", "Recipe not found.",
                   "Notebook not found.",
                   "Only the recipe owner or notebook owner can unshare this recipe."})

RemoveMemberRequest_PreconditionError_where(frames) ==
  ErrorIn(frames, {"Session invalid or user not found.", "Notebook not found.",
                   "Only the notebook owner can remove members."})

DeleteNotebookRequest_PreconditionError_where(frames) ==
  ErrorIn(frames, {"Session invalid or user not found.", "Notebook not found.",
                   "Only the notebook owner can delete the notebook."})

Where(rule, frames) ==
  CASE rule = "CreateRecipeRequest" -> CreateRecipeRequest_where(frames)
    [] rule = "CreateRecipeSessionErrorResponse" ->
         CreateRecipeSessionErrorResponse_where(frames)
    [] rule = "DeleteRecipeRequest" -> DeleteRecipeRequest_where(frames)
    [] rule = "DeleteRecipeCustomErrorResponse" ->
         DeleteRecipeCustomErrorResponse_where(frames)
    [] rule = "AnnotateRequest" -> AnnotateRequest_where(frames)
    [] rule = "AnnotateSessionErrorResponse" ->
         AnnotateSessionErrorResponse_where(frames)
    [] rule = "UpdateRecipeDetailsRequest" -> UpdateRecipeDetailsRequest_where(frames)
    [] rule = "UpdateRecipeDetailsCustomErrorResponse" ->
         UpdateRecipeDetailsCustomErrorResponse_where(frames)
    [] rule = "ApplyDraftRequest" -> ApplyDraftRequest_where(frames)
    [] rule = "ApplyDraftCustomErrorResponse" ->
         ApplyDraftCustomErrorResponse_where(frames)
    [] rule = "ResolveAnnotationRequest" -> ResolveAnnotationRequest_where(frames)
    [] rule = "ResolveAnnotationSessionErrorResponse" ->
         ResolveAnnotationSessionErrorResponse_where(frames)
    [] rule = "EditAnnotationRequest" -> EditAnnotationRequest_where(frames)
    [] rule = "EditAnnotationSessionErrorResponse" ->
         EditAnnotationSessionErrorResponse_where(frames)
    [] rule = "DeleteAnnotationRequest" -> DeleteAnnotationRequest_where(frames)
    [] rule = "DeleteAnnotationSessionErrorResponse" ->
         DeleteAnnotationSessionErrorResponse_where(frames)
    [] rule = "CreateNotebookRequest_SuccessPath" ->
         CreateNotebookRequest_SuccessPath_where(frames)
    [] rule = "CreateNotebookRequest_PreconditionError" ->
         CreateNotebookRequest_PreconditionError_where(frames)
    [] rule = "InviteMemberRequest_SuccessPath" ->
         InviteMemberRequest_SuccessPath_where(frames)
    [] rule = "InviteMemberRequest_PreconditionError" ->
         InviteMemberRequest_PreconditionError_where(frames)
    [] rule = "ShareRecipeRequest_SuccessPath" ->
         ShareRecipeRequest_SuccessPath_where(frames)
    [] rule = "ShareRecipeRequest_PreconditionError" ->
         ShareRecipeRequest_PreconditionError_where(frames)
    [] rule = "UnshareRecipeRequest_SuccessPath" ->
         UnshareRecipeRequest_SuccessPath_where(frames)
    [] rule = "UnshareRecipeRequest_PreconditionError" ->
         UnshareRecipeRequest_PreconditionError_where(frames)
    [] rule = "RemoveMemberRequest_SuccessPath" ->
         RemoveMemberRequest_SuccessPath_where(frames)
    [] rule = "RemoveMemberRequest_PreconditionError" ->
         RemoveMemberRequest_PreconditionError_where(frames)
    [] rule = "DeleteNotebookRequest_SuccessPath" ->
         DeleteNotebookRequest_SuccessPath_where(frames)
    [] rule = "DeleteNotebookRequest_PreconditionError" ->
         DeleteNotebookRequest_PreconditionError_where(frames)
    [] OTHER -> frames

\* The frames for which the rule's relationship filter (step 3 of the
\* authorization motif) evaluated true; a rule without one asserts no
\* relationship, and all its frames count.
RelationshipHolds(rule, frames) ==
  CASE rule = "DeleteRecipeRequest" ->
         DeleteRecipeRequest_filter(
           GetRecipeInto(GetUserInto(frames, "requester"), "recipeDoc"))
    [] rule \in {"UpdateRecipeDetailsRequest", "ApplyDraftRequest"} ->
         DeleteRecipeRequest_filter(
           GetRecipeInto(GetUserInto(frames, "requester"), "recipeDoc"))
    [] rule = "ShareRecipeRequest_SuccessPath" ->
         ShareRecipe_held(RecipeNotebookLookup(frames, "sharer"))
    [] rule = "UnshareRecipeRequest_SuccessPath" ->
         UnshareRecipe_held(RecipeNotebookLookup(frames, "requester"))
    [] rule \in {"RemoveMemberRequest_SuccessPath", "DeleteNotebookRequest_SuccessPath"} ->
         NotebookOwner_held(NotebookLookup(frames))
    [] OTHER -> Where(rule, frames)

----------------------------------------------------------------------------
\* Action Dispatcher

Range(seq) == {seq[i] : i \in 1..Len(seq)}

RECURSIVE SeqOf(_)
SeqOf(S) == IF S = {} THEN <<>> ELSE LET x == CHOOSE y \in S : TRUE IN <<x>> \o SeqOf(S \ {x})

RuleNamed(name) == CHOOSE r \in Rules : r.name = name

\* The invocation's arguments resolved from the frame; a variable the frame
\* does not bind resolves to undefined.
ThenArgs(inv, f) ==
  [k \in {x \in DOMAIN inv.args : ~IsVar(inv.args[x]) \/ inv.args[x][2] \in DOMAIN f} |->
     IF IsVar(inv.args[k]) THEN f[inv.args[k][2]] ELSE inv.args[k][2]]

Unbound(inv, f) ==
  \E k \in DOMAIN inv.args : IsVar(inv.args[k]) /\ inv.args[k][2] \notin DOMAIN f

\* The invocations rule r dispatches in trace t for the frames `out` that
\* survived its `where`.  The dispatcher's behaviour for a frame that lacks a
\* binding the invocation names is not fixed: with callUnbound it calls the
\* operation with the argument undefined, without it the invocation is not made.
Invocations(r, t, out, authorized, callUnbound) ==
  { [trace |-> t, by |-> r.name, action |-> r.then[j].action,
     input |-> ThenArgs(r.then[j], out[i]),
     authorized |-> out[i] \in Range(authorized), n |-> i] :
      <<i, j>> \in { ij \in (1..Len(out)) \X (1..Len(r.then)) :
                       callUnbound \/ ~Unbound(r.then[ij[2]], out[ij[1]]) } }

SomeUnbound(r, out) ==
  \E i \in 1..Len(out), j \in 1..Len(r.then) : Unbound(r.then[j], out[i])

\* The rules with a `when` pattern on the action: only these can match an
\* entry of that action.
Listening(action) ==
  {r \in Rules : \E j \in 1..Len(r.when) : r.when[j].action = action}

\* Rules without an asynchronous `where` run to completion when the entry that
\* triggers them is appended.
EagerInvocations(t, tr, i) ==
  UNION { LET frames == Frames(r.when, tr, i)
              out == Where(r.name, frames)
          IN Invocations(r, t, out, out, TRUE) :
            r \in {x \in Listening(tr[i].action) : ~x.async} }

\* Rules whose `where` awaits a query are suspended, one evaluation per rule.
AsyncTriggered(t, tr, i) ==
  { [trace |-> t, idx |-> i, rule |-> r.name] :
      r \in {x \in Listening(tr[i].action) :
                x.async /\ WhenFrames(x.when, tr, i) # {}} }

Entry(action, input, output, by, authorized) ==
  [action |-> action, input |-> input, output |-> output, by |-> by,
   authorized |-> authorized]

\* Action Log append: the invocation's result becomes an entry of its trace and
\* triggers the rules it matches.
Complete(item, out) ==
  LET t  == item.trace
      tr == Append(log[t], Entry(item.action, item.input, out, item.by, item.authorized))
  IN /\ log' = [log EXCEPT ![t] = tr]
     /\ pending' = (pending \ {item}) \cup EagerInvocations(t, tr, Len(tr))
     /\ awaiting' = awaiting \cup AsyncTriggered(t, tr, Len(tr))

\* A suspended rule evaluation resumes: its `where` reads the concepts' state
\* and every surviving frame dispatches the rule's `then`.
Evaluate(item) ==
  LET r == RuleNamed(item.rule)
      frames == Frames(r.when, log[item.trace], item.idx)
      out == Where(r.name, frames)
  IN /\ item \in awaiting
     /\ \E callUnbound \in (IF SomeUnbound(r, out) THEN BOOLEAN ELSE {TRUE}) :
          pending' = pending \cup
            Invocations(r, item.trace, out, RelationshipHolds(r.name, frames), callUnbound)
     /\ awaiting' = awaiting \ {item}
     /\ UNCHANGED <<log, dbvars, now>>

----------------------------------------------------------------------------
\* Concept actions.  Each executes one dispatched invocation atomically: the
\* concept's effect, and the result appended to the trace.

Put(f, k, v) == [x \in DOMAIN f \cup {k} |-> IF x = k THEN v ELSE f[x]]
Drop(f, S) == [x \in DOMAIN f \ S |-> f[x]]

\* String.prototype.trim on the texts this model sends.
Trim(str) == IF str = " " THEN "" ELSE str

\* What the database holds for a field written as v: the driver serializes
\* undefined as null.
Null == "null"
Stored(v) == IF v = Undefined THEN Null ELSE v

OkOut == EmptyObj
ErrOut(msg) == ("error" :> msg)

User_login(item) ==
  /\ item.action = "User.login"
  /\ LET in == item.input
         found == {u \in DOMAIN users : users[u].username = Get(in, "username")}
     IN Complete(item,
          IF Falsy(in, "username") \/ Falsy(in, "password")
            THEN ErrOut("Username and password cannot be empty.")
          ELSE IF found = {} \/ \A u \in found : users[u].password # in["password"]
            THEN ErrOut("Invalid username or password.")
          ELSE ("user" :> CHOOSE u \in found : TRUE))
  /\ UNCHANGED <<dbvars, now>>

\* An operation that awaits the database twice is two steps: after its reads
\* the invocation stays pending at its write (`stage`), and completes there
\* under the operation's own name.
AtStage(item, stage) == [item EXCEPT !.action = stage]

Suspend(item, stage) ==
  /\ pending' = (pending \ {item}) \cup {AtStage(item, stage)}
  /\ UNCHANGED <<log, awaiting>>

CompleteAs(item, action, out) ==
  LET t  == item.trace
      tr == Append(log[t], Entry(action, item.input, out, item.by, item.authorized))
  IN /\ log' = [log EXCEPT ![t] = tr]
     /\ pending' = (pending \ {item}) \cup EagerInvocations(t, tr, Len(tr))
     /\ awaiting' = awaiting \cup AsyncTriggered(t, tr, Len(tr))

\* The unique index on username (createIndex({ username: 1 }, { unique: true })):
\* a write that would give a second document the username is rejected.
DuplicateKey(username, self) ==
  \E u \in DOMAIN users \ {self} : users[u].username = username

\* The write's rejection reaches the caller as a thrown error.
Thrown == ErrOut("E11000 duplicate key error")

\* registerUser up to its existence check (findOne).
User_registerUser(item) ==
  /\ item.action = "User.registerUser"
  /\ LET in == item.input
     IN IF Falsy(in, "name") \/ Falsy(in, "username") \/ Falsy(in, "password")
          THEN Complete(item, ErrOut("Name, username, and password cannot be empty."))
        ELSE IF \E u \in DOMAIN users : users[u].username = in["username"]
          THEN Complete(item, ErrOut("A user with this username already exists."))
        ELSE Suspend(item, "User.registerUser/insertOne")
  /\ UNCHANGED <<dbvars, now>>

\* insertOne on a collection without the unique index.
User_registerUser_insertOne_NoIndex(item) ==
  /\ item.action = "User.registerUser/insertOne"
  /\ LET in == item.input
         newUserId == Fresh("uN", item.trace)
     IN /\ users' = Put(users, newUserId,
                        [username |-> in["username"], password |-> in["password"]])
        /\ CompleteAs(item, "User.registerUser", ("user" :> newUserId))
  /\ UNCHANGED <<sessions, recipes, annotations, notebooks, now>>

\* registerUser's write (insertOne).
User_registerUser_insertOne(item) ==
  /\ item.action = "User.registerUser/insertOne"
  /\ LET in == item.input
         newUserId == Fresh("uN", item.trace)
     IN IF DuplicateKey(in["username"], newUserId)
          THEN /\ CompleteAs(item, "User.registerUser", Thrown)
               /\ UNCHANGED users
          ELSE /\ users' = Put(users, newUserId,
                               [username |-> in["username"], password |-> in["password"]])
               /\ CompleteAs(item, "User.registerUser", ("user" :> newUserId))
  /\ UNCHANGED <<sessions, recipes, annotations, notebooks, now>>

\* updateProfile up to its check of the new username (findOne by id, findOne
\* by username).  Name and preferences are not modelled.
User_updateProfile(item) ==
  /\ item.action = "User.updateProfile"
  /\ LET in == item.input
         userId == Get(in, "user")
     IN IF userId \notin DOMAIN users
          THEN Complete(item, ErrOut("User not found."))
        ELSE IF "newUsername" \notin DOMAIN in
          THEN Complete(item, OkOut)
        ELSE IF Trim(in["newUsername"]) = ""
          THEN Complete(item, ErrOut("New username must be a non-empty string."))
        ELSE IF DuplicateKey(in["newUsername"], userId)
          THEN Complete(item, ErrOut("This username is already taken by another user."))
        ELSE Suspend(item, "User.updateProfile/updateOne")
  /\ UNCHANGED <<dbvars, now>>

\* updateProfile's write (updateOne).
User_updateProfile_updateOne(item) ==
  /\ item.action = "User.updateProfile/updateOne"
  /\ LET in == item.input
         userId == in["user"]
     IN IF DuplicateKey(in["newUsername"], userId)
          THEN /\ CompleteAs(item, "User.updateProfile", Thrown)
               /\ UNCHANGED users
          ELSE /\ users' = [users EXCEPT ![userId].username = in["newUsername"]]
               /\ CompleteAs(item, "User.updateProfile", OkOut)
  /\ UNCHANGED <<sessions, recipes, annotations, notebooks, now>>

\* The queries that only read, called as operations through their routes.
ReadQueries ==
  {"Sessioning._getUser", "Recipe._getRecipeById", "Notebook._getNotebookById"}

Query(item) ==
  /\ item.action \in ReadQueries
  /\ Complete(item, ("rows" :> RunQuery(item.action, item.input)))
  /\ UNCHANGED <<dbvars, now>>

\* Sessioning._refreshSession: updateOne({ _id: session }, { $set: { expires } }),
\* whether or not the session has expired.
Sessioning_refreshSession(item) ==
  /\ item.action = "Sessioning._refreshSession"
  /\ LET session == Get(item.input, "session")
     IN IF session \in DOMAIN sessions
          THEN /\ sessions' = [sessions EXCEPT ![session].expires = now + SessionTTL]
               /\ Complete(item, ("rows" :> << EmptyObj >>))
          ELSE /\ Complete(item, ("rows" :> << ErrOut("Session not found.") >>))
               /\ UNCHANGED sessions
  /\ UNCHANGED <<users, recipes, annotations, notebooks, now>>

Sessioning_createSession(item) ==
  /\ item.action = "Sessioning.createSession"
  /\ LET in == item.input
         sessionId == Fresh("s", item.trace)
     IN IF Falsy(in, "user")
          THEN /\ Complete(item, ErrOut("User ID must be provided."))
               /\ UNCHANGED sessions
          ELSE /\ sessions' = Put(sessions, sessionId,
                                  [user |-> in["user"], expires |-> now + SessionTTL])
               /\ Complete(item, ("session" :> sessionId))
  /\ UNCHANGED <<users, recipes, annotations, notebooks, now>>

Sessioning_deleteSession(item) ==
  /\ item.action = "Sessioning.deleteSession"
  /\ LET in == item.input
     IN IF "session" \in DOMAIN in /\ in["session"] \in DOMAIN sessions
          THEN /\ sessions' = Drop(sessions, {in["session"]})
               /\ Complete(item, OkOut)
          ELSE /\ Complete(item, ErrOut("Session not found."))
               /\ UNCHANGED sessions
  /\ UNCHANGED <<users, recipes, annotations, notebooks, now>>

Recipe_deleteRecipe(item) ==
  /\ item.action = "Recipe.deleteRecipe"
  /\ LET in == item.input
     IN IF Falsy(in, "requester") \/ Falsy(in, "recipe")
          THEN /\ Complete(item, ErrOut("Requester ID and Recipe ID must be provided."))
               /\ UNCHANGED recipes
        ELSE IF in["recipe"] \notin DOMAIN recipes
          THEN /\ Complete(item, ErrOut("Recipe not found."))
               /\ UNCHANGED recipes
        ELSE IF recipes[in["recipe"]].owner # in["requester"]
          THEN /\ Complete(item, ErrOut(
                    "Requester is not the owner of the recipe and cannot delete it."))
               /\ UNCHANGED recipes
        ELSE /\ recipes' = Drop(recipes, {in["recipe"]})
             /\ Complete(item, OkOut)
  /\ UNCHANGED <<users, sessions, annotations, notebooks, now>>

\* Validation of a list of ingredients / steps.
IngredientsOk(list) ==
  \A i \in 1..Len(list) : ~Falsy(list[i], "name") /\ ~Falsy(list[i], "quantity")
StepsOk(list) == \A i \in 1..Len(list) : ~Falsy(list[i], "description")

\* A $set that writes all four fields, the ones not passed as null.
UpdateFields_SetAll(doc, in) ==
  [doc EXCEPT !.title = Stored(Get(in, "newTitle")),
              !.description = Stored(Get(in, "newDescription")),
              !.ingredients = IF "newIngredients" \in DOMAIN in
                                THEN in["newIngredients"] ELSE << >>,
              !.steps = IF "newSteps" \in DOMAIN in THEN in["newSteps"] ELSE << >>,
              !.updated = now]

\* The $set of updateRecipeDetails: the fields passed, and the timestamp.
UpdateFields(doc, in) ==
  [doc EXCEPT !.title = IF "newTitle" \in DOMAIN in THEN in["newTitle"] ELSE @,
              !.description = IF "newDescription" \in DOMAIN in
                                THEN in["newDescription"] ELSE @,
              !.ingredients = IF "newIngredients" \in DOMAIN in
                                THEN in["newIngredients"] ELSE @,
              !.steps = IF "newSteps" \in DOMAIN in THEN in["newSteps"] ELSE @,
              !.updated = now]

Recipe_updateRecipeDetails(item) ==
  /\ item.action = "Recipe.updateRecipeDetails"
  /\ LET in == item.input
         recipe == Get(in, "recipe")
         Refuse(msg) == Complete(item, ErrOut(msg)) /\ UNCHANGED recipes
     IN IF Falsy(in, "owner") \/ Falsy(in, "recipe")
          THEN Refuse("Owner ID and Recipe ID must be provided.")
        ELSE IF recipe \notin DOMAIN recipes
          THEN Refuse("Recipe not found.")
        ELSE IF recipes[recipe].owner # in["owner"]
          THEN Refuse("Provided owner is not the actual owner of the recipe and cannot update it.")
        ELSE IF "newTitle" \in DOMAIN in /\ Trim(in["newTitle"]) = ""
          THEN Refuse("New title cannot be empty.")
        ELSE IF "newIngredients" \in DOMAIN in /\ Len(in["newIngredients"]) = 0
          THEN Refuse("New ingredients list cannot be empty.")
        ELSE IF "newIngredients" \in DOMAIN in /\ ~IngredientsOk(in["newIngredients"])
          THEN Refuse("Each new ingredient must have a name and quantity.")
        ELSE IF "newSteps" \in DOMAIN in /\ Len(in["newSteps"]) = 0
          THEN Refuse("New steps list cannot be empty.")
        ELSE IF "newSteps" \in DOMAIN in /\ ~StepsOk(in["newSteps"])
          THEN Refuse("Each new step must have a description.")
        ELSE /\ recipes' = [recipes EXCEPT ![recipe] = UpdateFields(@, in)]
             /\ Complete(item, OkOut)
  /\ UNCHANGED <<users, sessions, annotations, notebooks, now>>

\* The $set of applyDraft: ingredients and steps of the draft, its notes
\* appended to the description, and the timestamp.
DraftFields(doc, draftDetails) ==
  [doc EXCEPT !.ingredients = draftDetails.ingredients,
              !.steps = draftDetails.steps,
              !.description =
                 IF Falsy(draftDetails, "notes") THEN @
                 ELSE @ \o (IF @ = "" THEN "" ELSE "\n\n") \o "[AI Modification] "
                        \o draftDetails.notes,
              !.updated = now]

\* applyDraft without the comparison of `owner` with the recipe's owner.
Recipe_applyDraft_AnyUser(item) ==
  /\ item.action = "Recipe.applyDraft"
  /\ LET in == item.input
         recipe == Get(in, "recipe")
         draftDetails == in["draftDetails"]
         Refuse(msg) == Complete(item, ErrOut(msg)) /\ UNCHANGED recipes
     IN IF Falsy(in, "owner") \/ Falsy(in, "recipe")
          THEN Refuse("Owner ID and Recipe ID must be provided.")
        ELSE IF recipe \notin DOMAIN recipes
          THEN Refuse("Recipe not found.")
        ELSE IF Len(draftDetails.ingredients) = 0
          THEN Refuse("Draft must have at least one ingredient.")
        ELSE IF Len(draftDetails.steps) = 0
          THEN Refuse("Draft must have at least one step.")
        ELSE IF ~IngredientsOk(draftDetails.ingredients)
          THEN Refuse("Each ingredient must have a name and quantity.")
        ELSE IF ~StepsOk(draftDetails.steps)
          THEN Refuse("Each step must have a description.")
        ELSE /\ recipes' = [recipes EXCEPT ![recipe] = DraftFields(@, draftDetails)]
             /\ Complete(item, OkOut)
  /\ UNCHANGED <<users, sessions, annotations, notebooks, now>>

Recipe_applyDraft(item) ==
  /\ item.action = "Recipe.applyDraft"
  /\ LET in == item.input
         recipe == Get(in, "recipe")
         draftDetails == in["draftDetails"]
         Refuse(msg) == Complete(item, ErrOut(msg)) /\ UNCHANGED recipes
     IN IF Falsy(in, "owner") \/ Falsy(in, "recipe")
          THEN Refuse("Owner ID and Recipe ID must be provided.")
        ELSE IF recipe \notin DOMAIN recipes
          THEN Refuse("Recipe not found.")
        ELSE IF recipes[recipe].owner # in["owner"]
          THEN Refuse("Provided owner is not the actual owner of the recipe and cannot update it.")
        ELSE IF Len(draftDetails.ingredients) = 0
          THEN Refuse("Draft must have at least one ingredient.")
        ELSE IF Len(draftDetails.steps) = 0
          THEN Refuse("Draft must have at least one step.")
        ELSE IF ~IngredientsOk(draftDetails.ingredients)
          THEN Refuse("Each ingredient must have a name and quantity.")
        ELSE IF ~StepsOk(draftDetails.steps)
          THEN Refuse("Each step must have a description.")
        ELSE /\ recipes' = [recipes EXCEPT ![recipe] = DraftFields(@, draftDetails)]
             /\ Complete(item, OkOut)
  /\ UNCHANGED <<users, sessions, annotations, notebooks, now>>

Annotation_annotate(item) ==
  /\ item.action = "Annotation.annotate"
  /\ LET in == item.input
         newAnnotationId == Fresh("a", item.trace)
     IN IF Falsy(in, "text") \/ Trim(in["text"]) = ""
          THEN /\ Complete(item, ErrOut("Annotation text cannot be empty."))
               /\ UNCHANGED annotations
          ELSE /\ annotations' = Put(annotations, newAnnotationId,
                    [author |-> Stored(Get(in, "author")), recipe |-> Get(in, "recipe"),
                     text |-> Trim(in["text"]), resolved |-> FALSE])
               /\ Complete(item, ("annotation" :> newAnnotationId))
  /\ UNCHANGED <<users, sessions, recipes, notebooks, now>>

\* editAnnotation without the comparison of `author` with the stored author.
Annotation_editAnnotation_AnyUser(item) ==
  /\ item.action = "Annotation.editAnnotation"
  /\ LET in == item.input
         annotation == Get(in, "annotation")
     IN IF Falsy(in, "newText") \/ Trim(in["newText"]) = ""
          THEN /\ Complete(item, ErrOut("New annotation text cannot be empty."))
               /\ UNCHANGED annotations
        ELSE IF annotation \notin DOMAIN annotations
          THEN /\ Complete(item, ErrOut("Annotation not found."))
               /\ UNCHANGED annotations
        ELSE /\ annotations' = [annotations EXCEPT ![annotation].text = Trim(in["newText"])]
             /\ Complete(item, OkOut)
  /\ UNCHANGED <<users, sessions, recipes, notebooks, now>>

Annotation_editAnnotation(item) ==
  /\ item.action = "Annotation.editAnnotation"
  /\ LET in == item.input
         annotation == Get(in, "annotation")
     IN IF Falsy(in, "newText") \/ Trim(in["newText"]) = ""
          THEN /\ Complete(item, ErrOut("New annotation text cannot be empty."))
               /\ UNCHANGED annotations
        ELSE IF annotation \notin DOMAIN annotations
          THEN /\ Complete(item, ErrOut("Annotation not found."))
               /\ UNCHANGED annotations
        ELSE IF annotations[annotation].author # Get(in, "author")
          THEN /\ Complete(item, ErrOut("Only the author can edit an annotation."))
               /\ UNCHANGED annotations
        ELSE /\ annotations' = [annotations EXCEPT ![annotation].text = Trim(in["newText"])]
             /\ Complete(item, OkOut)
  /\ UNCHANGED <<users, sessions, recipes, notebooks, now>>

\* resolveAnnotation refusing a value the annotation already has.
Annotation_resolveAnnotation_OnlyOnChange(item) ==
  /\ item.action = "Annotation.resolveAnnotation"
  /\ LET in == item.input
         annotation == Get(in, "annotation")
     IN IF annotation \notin DOMAIN annotations
          THEN /\ Complete(item, ErrOut("Annotation not found."))
               /\ UNCHANGED annotations
        ELSE IF annotations[annotation].resolved = in["resolved"]
          THEN /\ Complete(item, ErrOut("Annotation is already in that state."))
               /\ UNCHANGED annotations
        ELSE /\ annotations' = [annotations EXCEPT ![annotation].resolved = in["resolved"]]
             /\ Complete(item, OkOut)
  /\ UNCHANGED <<users, sessions, recipes, notebooks, now>>

\* resolveAnnotation: the resolver is not checked.
Annotation_resolveAnnotation(item) ==
  /\ item.action = "Annotation.resolveAnnotation"
  /\ LET in == item.input
         annotation == Get(in, "annotation")
     IN IF annotation \notin DOMAIN annotations
          THEN /\ Complete(item, ErrOut("Annotation not found."))
               /\ UNCHANGED annotations
          ELSE /\ annotations' = [annotations EXCEPT ![annotation].resolved = in["resolved"]]
               /\ Complete(item, OkOut)
  /\ UNCHANGED <<users, sessions, recipes, notebooks, now>>

Annotation_deleteAnnotation(item) ==
  /\ item.action = "Annotation.deleteAnnotation"
  /\ LET in == item.input
         annotation == Get(in, "annotation")
     IN IF annotation \notin DOMAIN annotations
          THEN /\ Complete(item, ErrOut("Annotation not found."))
               /\ UNCHANGED annotations
        ELSE IF annotations[annotation].author # Get(in, "author")
          THEN /\ Complete(item, ErrOut("Only the author can delete an annotation."))
               /\ UNCHANGED annotations
        ELSE /\ annotations' = Drop(annotations, {annotation})
             /\ Complete(item, OkOut)
  /\ UNCHANGED <<users, sessions, recipes, notebooks, now>>

Annotation_deleteByRecipe(item) ==
  /\ item.action = "Annotation.deleteByRecipe"
  /\ annotations' = Drop(annotations,
       {a \in DOMAIN annotations : annotations[a].recipe = Get(item.input, "recipeId")})
  /\ Complete(item, OkOut)
  /\ UNCHANGED <<users, sessions, recipes, notebooks, now>>

Notebook_inviteMember(item) ==
  /\ item.action = "Notebook.inviteMember"
  /\ LET in == item.input
         notebook == Get(in, "notebook")
     IN IF notebook \notin DOMAIN notebooks
          THEN /\ Complete(item, ErrOut("Notebook not found."))
               /\ UNCHANGED notebooks
        ELSE IF notebooks[notebook].owner # Get(in, "owner")
          THEN /\ Complete(item, ErrOut("Only the notebook owner can invite members."))
               /\ UNCHANGED notebooks
        ELSE IF Get(in, "member") \in notebooks[notebook].members
          THEN /\ Complete(item, ErrOut("User is already a member of this notebook."))
               /\ UNCHANGED notebooks
        ELSE /\ notebooks' = [notebooks EXCEPT ![notebook].members = @ \cup {Get(in, "member")}]
             /\ Complete(item, OkOut)
  /\ UNCHANGED <<users, sessions, recipes, annotations, now>>

\* removeMember without the comparison of `owner` with the notebook's owner.
Notebook_removeMember_AnyUser(item) ==
  /\ item.action = "Notebook.removeMember"
  /\ LET in == item.input
         notebook == Get(in, "notebook")
     IN IF notebook \notin DOMAIN notebooks
          THEN /\ Complete(item, ErrOut("Notebook not found."))
               /\ UNCHANGED notebooks
        ELSE IF Get(in, "member") \notin notebooks[notebook].members
          THEN /\ Complete(item, ErrOut("User is not a member of this notebook."))
               /\ UNCHANGED notebooks
        ELSE /\ notebooks' = [notebooks EXCEPT ![notebook].members = @ \ {Get(in, "member")}]
             /\ Complete(item, OkOut)
  /\ UNCHANGED <<users, sessions, recipes, annotations, now>>

\* removeMember without the refusal of `member === owner`.
Notebook_removeMember_OwnerToo(item) ==
  /\ item.action = "Notebook.removeMember"
  /\ LET in == item.input
         notebook == Get(in, "notebook")
     IN IF notebook \notin DOMAIN notebooks
          THEN /\ Complete(item, ErrOut("Notebook not found."))
               /\ UNCHANGED notebooks
        ELSE IF notebooks[notebook].owner # Get(in, "owner")
          THEN /\ Complete(item, ErrOut("Only the notebook owner can remove members."))
               /\ UNCHANGED notebooks
        ELSE IF Get(in, "member") \notin notebooks[notebook].members
          THEN /\ Complete(item, ErrOut("User is not a member of this notebook."))
               /\ UNCHANGED notebooks
        ELSE /\ notebooks' = [notebooks EXCEPT ![notebook].members = @ \ {Get(in, "member")}]
             /\ Complete(item, OkOut)
  /\ UNCHANGED <<users, sessions, recipes, annotations, now>>

Notebook_removeMember(item) ==
  /\ item.action = "Notebook.removeMember"
  /\ LET in == item.input
         notebook == Get(in, "notebook")
     IN IF notebook \notin DOMAIN notebooks
          THEN /\ Complete(item, ErrOut("Notebook not found."))
               /\ UNCHANGED notebooks
        ELSE IF notebooks[notebook].owner # Get(in, "owner")
          THEN /\ Complete(item, ErrOut("Only the notebook owner can remove members."))
               /\ UNCHANGED notebooks
        ELSE IF Get(in, "member") = Get(in, "owner")
          THEN /\ Complete(item, ErrOut(
                    "The owner cannot remove themselves from the notebook."))
               /\ UNCHANGED notebooks
        ELSE IF Get(in, "member") \notin notebooks[notebook].members
          THEN /\ Complete(item, ErrOut("User is not a member of this notebook."))
               /\ UNCHANGED notebooks
        ELSE /\ notebooks' = [notebooks EXCEPT ![notebook].members = @ \ {Get(in, "member")}]
             /\ Complete(item, OkOut)
  /\ UNCHANGED <<users, sessions, recipes, annotations, now>>

\* The concept makes no check of `sharer`.
Notebook_shareRecipe(item) ==
  /\ item.action = "Notebook.shareRecipe"
  /\ LET in == item.input
         notebook == Get(in, "notebook")
     IN IF notebook \notin DOMAIN notebooks
          THEN /\ Complete(item, ErrOut("Notebook not found."))
               /\ UNCHANGED notebooks
        ELSE IF Get(in, "recipe") \in notebooks[notebook].recipes
          THEN /\ Complete(item, ErrOut("Recipe is already shared in this notebook."))
               /\ UNCHANGED notebooks
        ELSE /\ notebooks' = [notebooks EXCEPT ![notebook].recipes = @ \cup {Get(in, "recipe")}]
             /\ Complete(item, OkOut)
  /\ UNCHANGED <<users, sessions, recipes, annotations, now>>

\* The concept makes no check of `requester`.
Notebook_unshareRecipe(item) ==
  /\ item.action = "Notebook.unshareRecipe"
  /\ LET in == item.input
         notebook == Get(in, "notebook")
     IN IF notebook \notin DOMAIN notebooks
          THEN /\ Complete(item, ErrOut("Notebook not found."))
               /\ UNCHANGED notebooks
        ELSE IF Get(in, "recipe") \notin notebooks[notebook].recipes
          THEN /\ Complete(item, ErrOut("Recipe is not shared in this notebook."))
               /\ UNCHANGED notebooks
        ELSE /\ notebooks' = [notebooks EXCEPT ![notebook].recipes = @ \ {Get(in, "recipe")}]
             /\ Complete(item, OkOut)
  /\ UNCHANGED <<users, sessions, recipes, annotations, now>>

Notebook_deleteNotebook(item) ==
  /\ item.action = "Notebook.deleteNotebook"
  /\ LET in == item.input
         notebook == Get(in, "notebook")
     IN IF notebook \notin DOMAIN notebooks
          THEN /\ Complete(item, ErrOut("Notebook not found."))
               /\ UNCHANGED notebooks
        ELSE IF notebooks[notebook].owner # Get(in, "owner")
          THEN /\ Complete(item, ErrOut("Only the notebook owner can delete the notebook."))
               /\ UNCHANGED notebooks
        ELSE /\ notebooks' = Drop(notebooks, {notebook})
             /\ Complete(item, OkOut)
  /\ UNCHANGED <<users, sessions, recipes, annotations, now>>

\* The transport's terminal operation: the reply to the caller.
Requesting_respond(item) ==
  /\ item.action = "Requesting.respond"
  /\ Complete(item, ("request" :> Get(item.input, "request")))
  /\ UNCHANGED <<dbvars, now>>

----------------------------------------------------------------------------
\* Transport boundary

\* An inbound call to an excluded route becomes the trace's seed entry.
ClientRequest(body) ==
  /\ Len(log) < MaxTraces
  /\ LET t  == Len(log) + 1
         tr == << Entry("Requesting.request", body, ("request" :> t), "client", TRUE) >>
     IN /\ log' = Append(log, tr)
        /\ pending' = pending \cup EagerInvocations(t, tr, 1)
        /\ awaiting' = awaiting \cup AsyncTriggered(t, tr, 1)
  /\ UNCHANGED <<dbvars, now>>

\* An inbound call to an included route invokes the concept action directly.
Passthrough(action, body) ==
  /\ Len(log) < MaxTraces
  /\ log' = Append(log, << >>)
  /\ pending' = pending \cup
       { [trace |-> Len(log) + 1, by |-> "passthrough", action |-> action,
          input |-> body, authorized |-> TRUE, n |-> 1] }
  /\ UNCHANGED <<awaiting, dbvars, now>>

Tick ==
  /\ now < MaxTime
  /\ now' = now + 1
  /\ UNCHANGED <<log, awaiting, pending, dbvars>>

----------------------------------------------------------------------------
\* Initial state: a database holding two registered users, a session of each
\* (u2's expires at time 1), a recipe of u1 annotated by u2, and a notebook.

\* A stored recipe of the given owner.
Ingredient(name) == [name |-> name, quantity |-> "1"]
Step(description) == [description |-> description]

RecipeOf(owner) ==
  [owner |-> owner, title |-> "T", description |-> "D",
   ingredients |-> << Ingredient("i") >>, steps |-> << Step("s") >>, updated |-> 0,
   tags |-> {"t"}]

Init ==
  /\ log = << >>
  /\ awaiting = {}
  /\ pending = {}
  /\ users = ("u1" :> [username |-> "n1", password |-> "p1"])
          @@ ("u2" :> [username |-> "n2", password |-> "p2"])
  /\ sessions = ("sA" :> [user |-> "u1", expires |-> 2])
             @@ ("sB" :> [user |-> "u2", expires |-> 1])
  /\ recipes = ("rA" :> RecipeOf("u1"))
  /\ annotations = ("aA" :> [author |-> "u2", recipe |-> "rA", text |-> "note",
                            resolved |-> FALSE])
  /\ notebooks = ("nA" :> [owner |-> "u1", members |-> {"u1"}, recipes |-> {},
                           title |-> "N", description |-> "D"])
  /\ now = 0

\* Session tokens a client may present: the stored ones and one never issued.
Tokens == DOMAIN sessions \cup {"sX"}

Body(path, fields) == ("path" :> path) @@ fields

LoginBodies ==
  { Body("/User/login", ("username" :> "n1") @@ ("password" :> pw)) : pw \in {"p1", "bad"} }
  \cup { Body("/User/login", ("username" :> "nX") @@ ("password" :> "p1")) }

DeleteRecipeBodies ==
  { Body("/Recipe/deleteRecipe", ("session" :> s) @@ ("recipe" :> r)) :
      s \in Tokens, r \in {"rA", "rX"} }
  \cup { Body("/Recipe/deleteRecipe", ("recipe" :> "rA")) }

AnnotateFields(s, text) ==
  ("session" :> s) @@ ("recipe" :> "rA") @@ ("targetKind" :> "Step")
    @@ ("index" :> "0") @@ ("text" :> text)

AnnotateBodies ==
  { Body("/Annotation/annotate", AnnotateFields(s, "note")) : s \in Tokens }
  \cup { Body("/Annotation/annotate", AnnotateFields("sA", " ")),
         Body("/Annotation/annotate", AnnotateFields("sB", "note") @@ ("author" :> "u1")) }

\* Included routes (passthrough.ts) that are actions.
SessionPassthroughs ==
  { <<"Sessioning.createSession", ("user" :> "u1")>>,
    <<"Sessioning.deleteSession", ("session" :> "sA")>> }

Next ==
  \/ \E body \in LoginBodies \cup DeleteRecipeBodies \cup AnnotateBodies :
       ClientRequest(body)
  \/ \E call \in SessionPassthroughs : Passthrough(call[1], call[2])
  \/ \E item \in awaiting : Evaluate(item)
  \/ \E item \in pending : User_login(item)
  \/ \E item \in pending : Sessioning_createSession(item)
  \/ \E item \in pending : Sessioning_deleteSession(item)
  \/ \E item \in pending : Recipe_deleteRecipe(item)
  \/ \E item \in pending : Annotation_annotate(item)
  \/ \E item \in pending : Annotation_deleteByRecipe(item)
  \/ \E item \in pending : Requesting_respond(item)
  \/ Tick

Spec == Init /\ [][Next]_vars

----------------------------------------------------------------------------
\* The notebook routes: a database holding three users with a session each, a
\* notebook of u1 with member u2, a recipe of u2 shared in it and a recipe of
\* u1 not shared in it; u3 is a stranger to the notebook and to both recipes.

InitNotebook ==
  /\ log = << >>
  /\ awaiting = {}
  /\ pending = {}
  /\ users = ("u1" :> [username |-> "n1", password |-> "p1"])
          @@ ("u2" :> [username |-> "n2", password |-> "p2"])
          @@ ("u3" :> [username |-> "n3", password |-> "p3"])
  /\ sessions = ("sA" :> [user |-> "u1", expires |-> SessionTTL])
             @@ ("sB" :> [user |-> "u2", expires |-> SessionTTL])
             @@ ("sC" :> [user |-> "u3", expires |-> SessionTTL])
  /\ recipes = ("rA" :> RecipeOf("u2")) @@ ("rB" :> RecipeOf("u1"))
  /\ annotations = EmptyObj
  /\ notebooks = ("nA" :> [owner |-> "u1", members |-> {"u1", "u2"}, recipes |-> {"rA"},
                           title |-> "N", description |-> "D"])
  /\ now = 0

\* Who asks: anyone shares and unshares (sX is a token never issued); the
\* owner, the member and the holder of sX invite, remove and delete.
SharerTokens == {"sA", "sB", "sC", "sX"}
MemberTokens == {"sA", "sB", "sX"}

ShareRecipeBodies ==
  { Body("/Notebook/shareRecipe",
         ("session" :> s) @@ ("notebook" :> "nA") @@ ("recipe" :> "rB")) :
      s \in SharerTokens }

UnshareRecipeBodies ==
  { Body("/Notebook/unshareRecipe",
         ("session" :> s) @@ ("notebook" :> "nA") @@ ("recipe" :> "rA")) :
      s \in SharerTokens }

InviteMemberBodies ==
  { Body("/Notebook/inviteMember",
         ("session" :> s) @@ ("notebook" :> "nA") @@ ("member" :> "u3")) :
      s \in MemberTokens }

RemoveMemberBodies ==
  { Body("/Notebook/removeMember",
         ("session" :> s) @@ ("notebook" :> "nA") @@ ("member" :> "u2")) :
      s \in MemberTokens }

DeleteNotebookBodies ==
  { Body("/Notebook/deleteNotebook", ("session" :> s) @@ ("notebook" :> "nA")) :
      s \in MemberTokens }

NextNotebook ==
  \/ \E body \in ShareRecipeBodies \cup UnshareRecipeBodies \cup InviteMemberBodies
                   \cup RemoveMemberBodies \cup DeleteNotebookBodies :
       ClientRequest(body)
  \/ \E item \in awaiting : Evaluate(item)
  \/ \E item \in pending : Notebook_inviteMember(item)
  \/ \E item \in pending : Notebook_removeMember(item)
  \/ \E item \in pending : Notebook_shareRecipe(item)
  \/ \E item \in pending : Notebook_unshareRecipe(item)
  \/ \E item \in pending : Notebook_deleteNotebook(item)
  \/ \E item \in pending : Requesting_respond(item)

SpecNotebook == InitNotebook /\ [][NextNotebook]_vars

----------------------------------------------------------------------------
\* The recipe routes, on the database of Init: recipe rA belongs to u1 (session
\* sA); u2's session sB expires at time 1.

UpdateBody(s, fields) ==
  Body("/Recipe/updateRecipeDetails", ("session" :> s) @@ ("recipe" :> "rA") @@ fields)

UpdateRecipeDetailsBodies ==
  { UpdateBody(s, ("newTitle" :> "T2")) : s \in Tokens }
  \cup { UpdateBody("sA", fields) :
           fields \in { EmptyObj, ("newTitle" :> " "), ("newIngredients" :> << >>),
                        ("newIngredients" :> << [name |-> "x"] >>),
                        ("newSteps" :> << >>),
                        ("newSteps" :> << [description |-> ""] >>),
                        ("newDescription" :> "D2") @@ ("newSteps" :> << Step("s2") >>) } }

Draft(ingredients, steps, notes) ==
  [ingredients |-> ingredients, steps |-> steps, notes |-> notes]

ApplyDraftBodies ==
  { Body("/Recipe/applyDraft",
         ("session" :> s) @@ ("recipe" :> "rA")
           @@ ("draftDetails" :> Draft(<< Ingredient("j") >>, << Step("t") >>, "n"))) :
      s \in Tokens }
  \cup { Body("/Recipe/applyDraft",
              ("session" :> "sA") @@ ("recipe" :> r) @@ ("draftDetails" :> d)) :
           <<r, d>> \in { <<"rA", Draft(<< >>, << Step("t") >>, "")>>,
                          <<"rA", Draft(<< Ingredient("j") >>, << >>, "")>>,
                          <<"rA", Draft(<< [name |-> "j"] >>, << Step("t") >>, "")>>,
                          <<"rA", Draft(<< Ingredient("j") >>, << Step("") >>, "")>>,
                          <<"rX", Draft(<< Ingredient("j") >>, << Step("t") >>, "")>> } }

NextRecipe ==
  \/ \E body \in UpdateRecipeDetailsBodies \cup ApplyDraftBodies \cup DeleteRecipeBodies :
       ClientRequest(body)
  \/ \E item \in awaiting : Evaluate(item)
  \/ \E item \in pending : Recipe_deleteRecipe(item)
  \/ \E item \in pending : Recipe_updateRecipeDetails(item)
  \/ \E item \in pending : Recipe_applyDraft(item)
  \/ \E item \in pending : Annotation_deleteByRecipe(item)
  \/ \E item \in pending : Requesting_respond(item)
  \/ Tick

SpecRecipe == Init /\ [][NextRecipe]_vars

----------------------------------------------------------------------------
\* The annotation routes, on the database of Init: annotation aA on rA was
\* written by u2, whose session sB expires at time 1.

EditAnnotationBodies ==
  { Body("/Annotation/editAnnotation",
         ("session" :> s) @@ ("annotation" :> "aA") @@ ("newText" :> "new")) : s \in Tokens }
  \cup { Body("/Annotation/editAnnotation",
              ("session" :> x[1]) @@ ("annotation" :> x[2]) @@ ("newText" :> x[3])) :
           x \in { <<"sB", "aA", " ">>, <<"sB", "aX", "new">>,
                    <<"sX", Fresh("a", 1), "new">> } }

DeleteAnnotationBodies ==
  { Body("/Annotation/deleteAnnotation", ("session" :> s) @@ ("annotation" :> "aA")) :
      s \in Tokens }

NextAnnotation ==
  \/ \E body \in AnnotateBodies \cup EditAnnotationBodies \cup DeleteAnnotationBodies :
       ClientRequest(body)
  \/ \E item \in awaiting : Evaluate(item)
  \/ \E item \in pending : Annotation_annotate(item)
  \/ \E item \in pending : Annotation_editAnnotation(item)
  \/ \E item \in pending : Annotation_deleteAnnotation(item)
  \/ \E item \in pending : Requesting_respond(item)
  \/ Tick

SpecAnnotation == Init /\ [][NextAnnotation]_vars

----------------------------------------------------------------------------
\* Operations called directly: user accounts and the queries

RegisterFields(username) ==
  ("name" :> "N") @@ ("username" :> username) @@ ("password" :> "p3")

\* registerUser is an included route; updateProfile has no route and no rule
\* and is called on the concept itself.
UserCalls ==
  { <<"User.registerUser", RegisterFields(n)>> : n \in {"n1", "n3", ""} }
  \cup { <<"User.updateProfile", ("user" :> u) @@ ("newUsername" :> n)>> :
           u \in {"u1", "u2"}, n \in {"n1", "n3"} }
  \cup { <<"User.updateProfile", ("user" :> "uX") @@ ("newUsername" :> "n3")>>,
         <<"User.updateProfile", ("user" :> "u2") @@ ("newUsername" :> " ")>>,
         <<"User.updateProfile", ("user" :> "u2")>> }

\* Included routes (passthrough.ts) that are queries.
QueryCalls ==
  { <<"Sessioning._getUser", ("session" :> "sB")>>,
    <<"Recipe._getRecipeById", ("recipe" :> "rA")>>,
    <<"Notebook._getNotebookById", ("notebook" :> "nA")>> }
  \cup { <<"Sessioning._refreshSession", ("session" :> s)>> : s \in {"sA", "sB", "sX"} }

NextUser ==
  \/ \E call \in UserCalls \cup QueryCalls : Passthrough(call[1], call[2])
  \/ \E item \in pending : User_registerUser(item)
  \/ \E item \in pending : User_registerUser_insertOne(item)
  \/ \E item \in pending : User_updateProfile(item)
  \/ \E item \in pending : User_updateProfile_updateOne(item)
  \/ \E item \in pending : Query(item)
  \/ \E item \in pending : Sessioning_refreshSession(item)
  \/ Tick

SpecUser == Init /\ [][NextUser]_vars

----------------------------------------------------------------------------
\* Resolving annotations

ResolveAnnotationBodies ==
  { Body("/Annotation/resolveAnnotation",
         ("session" :> x[1]) @@ ("annotation" :> x[2]) @@ ("resolved" :> x[3])) :
      x \in (Tokens \X {"aA"} \X BOOLEAN) \cup {<<"sA", "aX", TRUE>>} }

NextResolve ==
  \/ \E body \in ResolveAnnotationBodies \cup DeleteAnnotationBodies : ClientRequest(body)
  \/ \E item \in awaiting : Evaluate(item)
  \/ \E item \in pending : Annotation_resolveAnnotation(item)
  \/ \E item \in pending : Annotation_deleteAnnotation(item)
  \/ \E item \in pending : Requesting_respond(item)
  \/ Tick

SpecResolve == Init /\ [][NextResolve]_vars

----------------------------------------------------------------------------
\* The matcher on its own: entries are appended to one trace and each append
\* evaluates the `when` of a rule whose two patterns share the variable `user`.

MaxReplay == 4

\* LoginResponseWithSession's patterns on User.login and
\* Sessioning.createSession, joined on the user.
JoinOnUser ==
  Rule("JoinOnUser",
       << Pat("User.login", EmptyObj, Vars({"user"})),
          Pat("Sessioning.createSession", Vars({"user"}), Vars({"session"})) >>, FALSE,
       << Inv("Requesting.respond", Vars({"user", "session"})) >>)

ReplayEntries ==
  { Entry("User.login", ("username" :> "n") @@ ("password" :> "p"), ("user" :> u),
          "replay", TRUE) : u \in {"u1", "u2"} }
  \cup { Entry("Sessioning.createSession", ("user" :> us[1]), ("session" :> us[2]),
               "replay", TRUE) :
           us \in {<<"u1", "s1">>, <<"u1", "s2">>, <<"u2", "s1">>} }

\* Action Log append of entry e; the evaluation it triggers is kept with the
\* frames the matcher produced for it.
Replay(e) ==
  /\ Len(log) <= 1
  /\ log # << >> => Len(log[1]) < MaxReplay
  /\ LET tr == IF log = << >> THEN << e >> ELSE Append(log[1], e)
         i  == Len(tr)
     IN /\ log' = << tr >>
        /\ awaiting' = awaiting \cup
             { [trace |-> 1, idx |-> i, rule |-> JoinOnUser.name,
                frames |-> Frames(JoinOnUser.when, tr, i)] }
  /\ UNCHANGED <<pending, dbvars, now>>

NextMatcher == \E e \in ReplayEntries : Replay(e)

SpecMatcher == Init /\ [][NextMatcher]_vars

----------------------------------------------------------------------------
\* Vocabulary of the properties

Traces == 1..Len(log)

\* The trace was opened by a request to an excluded route.
IsRequest(t) == Len(log[t]) >= 1 /\ log[t][1].action = "Requesting.request"
Seed(t) == log[t][1].input

\* Every rule the trace triggered has run to completion.
Quiet(t) ==
  /\ \A item \in pending : item.trace # t
  /\ \A item \in awaiting : item.trace # t

EntriesOf(t, action) == {i \in 1..Len(log[t]) : log[t][i].action = action}
Responses(t) == EntriesOf(t, "Requesting.respond")

IsError(out) == "error" \in DOMAIN out

\* The session is stored and has not expired (what Sessioning._getUser accepts).
SessionValid(s) == s \in DOMAIN sessions /\ sessions[s].expires > now

\* The rules that dispatch a concept action on behalf of a session.
RequestRules == {"DeleteRecipeRequest", "AnnotateRequest"}
ProtectedOps == {"Recipe.deleteRecipe"}
IdentityKeys == {"author", "owner", "requester", "sharer", "resolver"}

\* The body carries every field the route's request rule names.
WellFormed(t) ==
  \E r \in Rules :
    /\ r.then[1].action # "Requesting.respond"
    /\ r.when[1].action = "Requesting.request"
    /\ MatchOk(r.when[1].input, Seed(t), EmptyObj)

----------------------------------------------------------------------------
\* The request's principal resolves: a login, or a request whose session is
\* stored and unexpired (it was so when the request's rules were evaluated, as
\* clients present stored tokens and a session is never revived).
PrincipalResolves(t) ==
  \/ Seed(t)["path"] = "/User/login"
  \/ SessionValid(Get(Seed(t), "session"))

\* C1: every well-formed request trace gets exactly one Requesting.respond
\* entry: never more than one, and one once every rule it triggered has run.
\* Stated for the requests whose principal resolves, where the dispatcher has
\* every argument bound.
C1_ExactlyOneResponse ==
  \A t \in Traces :
    (IsRequest(t) /\ WellFormed(t) /\ PrincipalResolves(t)) =>
      /\ Cardinality(Responses(t)) <= 1
      /\ Quiet(t) => Cardinality(Responses(t)) = 1

\* C2: no frame reaches the `then` invocation of a protected mutating
\* operation unless the rule's relationship filter was true for that frame.
C2_ThenOnlyIfRelationshipHolds ==
  \A item \in pending :
    (item.action \in ProtectedOps /\ item.by \in RequestRules) => item.authorized

\* C3: a rule never dispatches the concept action of a protected route while
\* the request's session is missing, unknown or expired.
C3_NoActionWithoutValidSession ==
  [][ \A item \in pending' \ pending :
        item.by \in RequestRules => SessionValid(Get(Seed(item.trace), "session")) ]_vars

NonOwnerDelete(t) ==
  /\ IsRequest(t)
  /\ Seed(t)["path"] = "/Recipe/deleteRecipe"
  /\ SessionValid(Get(Seed(t), "session"))
  /\ Get(Seed(t), "recipe") \in DOMAIN recipes
  /\ sessions[Seed(t)["session"]].user # recipes[Seed(t)["recipe"]].owner

\* C5: for a delete of a recipe by a user who is not its owner, the delete
\* request rule dispatches nothing (zero surviving frames) and the
\* precondition-error rule answers: a single error response.
C5_NonOwnerDeleteRejected ==
  \A t \in Traces :
    NonOwnerDelete(t) =>
      /\ \A item \in pending :
           ~(item.trace = t /\ item.action = "Recipe.deleteRecipe")
      /\ EntriesOf(t, "Recipe.deleteRecipe") = {}
      /\ Cardinality(Responses(t)) <= 1
      /\ Quiet(t) =>
           \E i \in Responses(t) :
             /\ log[t][i].by = "DeleteRecipeCustomErrorResponse"
             /\ IsError(log[t][i].input)

\* A request to a protected route with no session, or with a token that was
\* never issued.
ProtectedPaths == {"/Recipe/deleteRecipe", "/Annotation/annotate"}
InvalidSessionRequest(t) ==
  /\ IsRequest(t)
  /\ Seed(t)["path"] \in ProtectedPaths
  /\ Get(Seed(t), "session") \in {Undefined, "sX"}

SessionErrors ==
  {"Invalid session", "Session invalid or expired.", "Session not found or expired.",
   "Session ID must be provided.", "Session invalid or user not found."}

\* C6: a request to a protected route whose session is missing or unknown is
\* answered, and every answer is an error reporting the invalid session.
C6_InvalidSessionAnsweredWithError ==
  \A t \in Traces :
    InvalidSessionRequest(t) =>
      /\ \A i \in Responses(t) : Get(log[t][i].input, "error") \in SessionErrors
      /\ Quiet(t) => Responses(t) # {}

\* The sessions of the initial database.
InitSessions == {"sA", "sB"}

\* C7: every session created since resolves to a user who logged in
\* successfully in the trace that created it, and was created by the login
\* rule.
C7_SessionsOnlyFromLogin ==
  \A s \in DOMAIN sessions \ InitSessions :
    \E t \in Traces :
      /\ s = Fresh("s", t)
      /\ \E i \in EntriesOf(t, "User.login") :
           Get(log[t][i].output, "user") = sessions[s].user
      /\ \A i \in EntriesOf(t, "Sessioning.createSession") :
           log[t][i].by = "CreateSessionAfterLogin"

\* The Annotation.deleteByRecipe invocations of trace t dispatched after its
\* entry i: those still to execute and those logged.
CascadeCalls(t, i) ==
  { [recipeId |-> Get(item.input, "recipeId"), by |-> item.by] :
      item \in {x \in pending : x.trace = t /\ x.action = "Annotation.deleteByRecipe"} }
  \cup
  { [recipeId |-> Get(log[t][j].input, "recipeId"), by |-> log[t][j].by] :
      j \in {k \in EntriesOf(t, "Annotation.deleteByRecipe") : k > i} }

\* C8: once a Recipe.deleteRecipe of recipe R has succeeded in a trace, an
\* Annotation.deleteByRecipe invocation for R has been dispatched in that trace
\* by a rule other than the one that dispatched the delete.
C8_CascadeDispatched ==
  \A t \in Traces :
    \A i \in EntriesOf(t, "Recipe.deleteRecipe") :
      ~IsError(log[t][i].output) =>
        \E call \in CascadeCalls(t, i) :
          /\ call.recipeId = log[t][i].input["recipe"]
          /\ call.by = "CascadeAnnotationDeletion"
          /\ call.by # log[t][i].by

\* C8's case: the owner's delete request succeeded and the cascade's
\* invocation is dispatched, not yet executed.
C8_Witness ==
  \E t \in Traces :
    /\ \E i \in EntriesOf(t, "Recipe.deleteRecipe") :
         /\ ~IsError(log[t][i].output)
         /\ log[t][i].by = "DeleteRecipeRequest"
         /\ log[t][i].input = ("requester" :> "u1") @@ ("recipe" :> "rA")
    /\ \E item \in pending :
         /\ item.trace = t
         /\ item.action = "Annotation.deleteByRecipe"
         /\ item.by = "CascadeAnnotationDeletion"
    /\ "rA" \notin DOMAIN recipes

\* C9: an Annotation.deleteByRecipe invocation is dispatched by the cascade
\* rule only for a recipe whose Recipe.deleteRecipe succeeded in the trace; an
\* error entry triggers none.
C9_ErrorDeleteTriggersNoCascade ==
  \A t \in Traces :
    \A call \in CascadeCalls(t, 0) :
      call.by = "CascadeAnnotationDeletion" =>
        \E i \in EntriesOf(t, "Recipe.deleteRecipe") :
          /\ ~IsError(log[t][i].output)
          /\ log[t][i].input["recipe"] = call.recipeId

\* C10: once a recipe's deletion has succeeded and every rule its trace
\* triggered has completed, no stored annotation made by a request received
\* before the delete request references the recipe.
C10_NoOrphanedAnnotations ==
  \A t \in Traces :
    \A i \in EntriesOf(t, "Recipe.deleteRecipe") :
      (~IsError(log[t][i].output) /\ Quiet(t)) =>
        \A ta \in 1..(t - 1) :
          Fresh("a", ta) \in DOMAIN annotations =>
            annotations[Fresh("a", ta)].recipe # log[t][i].input["recipe"]


----------------------------------------------------------------------------
\* Notebook routes

\* The step executed an invocation of `action` in trace t.
Executed(t, action) ==
  /\ t \in Traces
  /\ Len(log'[t]) = Len(log[t]) + 1
  /\ log'[t][Len(log'[t])].action = action

\* The user the request's session resolves to, if it resolves.
SessionUser(t) ==
  IF IsRequest(t) /\ SessionValid(Get(Seed(t), "session"))
    THEN sessions[Seed(t)["session"]].user
    ELSE Undefined

\* C11: a step of a share request adds a recipe to a notebook's recipes only
\* when the user the request's session resolves to is the recipe's owner or a
\* member of the notebook; a user who is neither adds nothing.
C11_ShareOnlyByOwnerOrMember ==
  [][ \A t \in Traces : Executed(t, "Notebook.shareRecipe") =>
        \A n \in DOMAIN notebooks \cap DOMAIN notebooks' :
          \A r \in notebooks'[n].recipes \ notebooks[n].recipes :
            \/ r \in DOMAIN recipes /\ recipes[r].owner = SessionUser(t)
            \/ SessionUser(t) \in notebooks[n].members ]_vars

\* C12: a step of an unshare request removes a recipe from a notebook's
\* recipes only when the user the request's session resolves to is the
\* recipe's owner or the notebook's owner; for anyone else the notebook's
\* recipes stay as they were.
C12_UnshareOnlyByRecipeOrNotebookOwner ==
  [][ \A t \in Traces : Executed(t, "Notebook.unshareRecipe") =>
        \A n \in DOMAIN notebooks \cap DOMAIN notebooks' :
          \A r \in notebooks[n].recipes \ notebooks'[n].recipes :
            \/ r \in DOMAIN recipes /\ recipes[r].owner = SessionUser(t)
            \/ SessionUser(t) = notebooks[n].owner ]_vars

MemberOps == {"Notebook.inviteMember", "Notebook.removeMember", "Notebook.deleteNotebook"}

\* The entry the step appended to trace t.
Appended(t) == log'[t][Len(log'[t])]

\* C14: a notebook's member set changes, and a notebook is deleted, only in a
\* step of inviteMember, removeMember or deleteNotebook on that notebook whose
\* acting user (the `owner` argument) is the notebook's owner.
C14_MembersAndDeletionOnlyByOwner ==
  [][ \A n \in DOMAIN notebooks :
        (n \notin DOMAIN notebooks' \/ notebooks'[n].members # notebooks[n].members) =>
          \E t \in Traces, op \in MemberOps :
            /\ Executed(t, op)
            /\ Get(Appended(t).input, "notebook") = n
            /\ Get(Appended(t).input, "owner") = notebooks[n].owner ]_vars

\* C14's case: the owner's removeMember went through and the member is gone,
\* while a removeMember of another acting user was refused.
C14_Witness ==
  /\ "nA" \in DOMAIN notebooks /\ "u2" \notin notebooks["nA"].members
  /\ \E t \in Traces : \E i \in EntriesOf(t, "Notebook.removeMember") :
       ~IsError(log[t][i].output) /\ Get(log[t][i].input, "owner") = "u1"
  /\ \E t \in Traces : \E i \in EntriesOf(t, "Notebook.removeMember") :
       IsError(log[t][i].output) /\ Get(log[t][i].input, "owner") # "u1"

----------------------------------------------------------------------------
\* Annotation routes

AuthorOps == {"Annotation.editAnnotation", "Annotation.deleteAnnotation"}

\* C15: an annotation's text changes, and an annotation is removed, only in a
\* step of editAnnotation or deleteAnnotation on that annotation whose acting
\* user (the `author` argument) is a user and is the annotation's author.
C15_EditAndDeleteOnlyByAuthor ==
  [][ \A a \in DOMAIN annotations :
        (a \notin DOMAIN annotations' \/ annotations'[a].text # annotations[a].text) =>
          \E t \in Traces, op \in AuthorOps :
            /\ Executed(t, op)
            /\ Get(Appended(t).input, "annotation") = a
            /\ Get(Appended(t).input, "author") = annotations[a].author
            /\ annotations[a].author \in DOMAIN users ]_vars

\* C15's case: the author's edit went through, and an edit by another acting
\* user of the same annotation was refused.
C15_Witness ==
  /\ "aA" \in DOMAIN annotations /\ annotations["aA"].text = "new"
  /\ \E t \in Traces : \E i \in EntriesOf(t, "Annotation.editAnnotation") :
       ~IsError(log[t][i].output) /\ Get(log[t][i].input, "author") = "u2"
  /\ \E t \in Traces : \E i \in EntriesOf(t, "Annotation.editAnnotation") :
       /\ log[t][i].output = ErrOut("Only the author can edit an annotation.")
       /\ Get(log[t][i].input, "author") = "u1"

----------------------------------------------------------------------------
\* Recipe routes

\* The acting user of a recipe operation: `requester` of deleteRecipe, `owner`
\* of updateRecipeDetails and applyDraft.
ActingUser(entry) ==
  IF entry.action = "Recipe.deleteRecipe"
    THEN Get(entry.input, "requester") ELSE Get(entry.input, "owner")

OwnerOps == {"Recipe.deleteRecipe", "Recipe.updateRecipeDetails", "Recipe.applyDraft"}

\* The details of a recipe the claim speaks of.
Content(doc) == << doc.title, doc.description, doc.ingredients, doc.steps >>

\* C13: a recipe is removed, or its title, description, ingredients or steps
\* change, only in a step of deleteRecipe, updateRecipeDetails or applyDraft on
\* that recipe whose acting user is the recipe's owner; a step of these
\* operations for any other acting user leaves the recipe exactly as it was.
C13_RecipeChangedOnlyByOwner ==
  [][ \A r \in DOMAIN recipes :
        /\ (r \notin DOMAIN recipes' \/ Content(recipes'[r]) # Content(recipes[r])) =>
             \E t \in Traces, op \in OwnerOps :
               /\ Executed(t, op)
               /\ Get(Appended(t).input, "recipe") = r
               /\ ActingUser(Appended(t)) = recipes[r].owner
        /\ \A t \in Traces, op \in OwnerOps :
             ( /\ Executed(t, op)
               /\ Get(Appended(t).input, "recipe") = r
               /\ ActingUser(Appended(t)) # recipes[r].owner ) =>
               r \in DOMAIN recipes' /\ recipes'[r] = recipes[r] ]_vars

\* C13's case: the owner's update of the title went through, and an applyDraft
\* whose acting user is another user was refused by the ownership comparison.
C13_Witness ==
  /\ "rA" \in DOMAIN recipes /\ recipes["rA"].title = "T2"
  /\ \E t \in Traces : \E i \in EntriesOf(t, "Recipe.applyDraft") :
       /\ Get(log[t][i].input, "owner") = "u2"
       /\ log[t][i].output = ErrOut(
            "Provided owner is not the actual owner of the recipe and cannot update it.")

----------------------------------------------------------------------------
\* Login

IsLogin(t) == IsRequest(t) /\ Seed(t)["path"] = "/User/login"

\* The registered users the request's username and password match.
Matching(t) ==
  {u \in DOMAIN users : /\ users[u].username = Get(Seed(t), "username")
                        /\ users[u].password = Get(Seed(t), "password")}

Created(t) == EntriesOf(t, "Sessioning.createSession")

\* C16: a login request whose username and password match a registered user u
\* causes one Sessioning.createSession, for u; once its rules have run it has
\* been answered once, with u and the session that invocation created, and
\* that session is stored for u and, while unexpired, resolves through
\* Sessioning._getUser to u.
C16_LoginCreatesSessionAndAnswers ==
  \A t \in Traces : (IsLogin(t) /\ Matching(t) # {}) =>
    /\ Cardinality(Created(t)) <= 1
    /\ \A i \in Created(t) : log[t][i].input = ("user" :> CHOOSE u \in Matching(t) : TRUE)
    /\ Quiet(t) =>
         /\ Cardinality(Created(t)) = 1
         /\ Cardinality(Responses(t)) = 1
         /\ \A i \in Created(t), j \in Responses(t) :
              LET u == CHOOSE v \in Matching(t) : TRUE
                  s == Get(log[t][i].output, "session")
              IN /\ Get(log[t][j].input, "user") = u
                 /\ Get(log[t][j].input, "session") = s
                 /\ s \in DOMAIN sessions /\ s \notin InitSessions
                 /\ sessions[s].user = u
                 /\ SessionValid(s) =>
                      Sessioning_getUser(("session" :> s)) = << ("user" :> u) >>

\* C16's case: a login with matching credentials has been answered with the
\* user and a session that resolves to that user.
C16_Witness ==
  \E t \in Traces :
    /\ IsLogin(t) /\ Matching(t) = {"u1"} /\ Quiet(t)
    /\ \E j \in Responses(t) :
         /\ Get(log[t][j].input, "user") = "u1"
         /\ Sessioning_getUser(("session" :> Get(log[t][j].input, "session")))
              = << ("user" :> "u1") >>

\* C17: a login request whose credentials match no registered user causes no
\* Sessioning.createSession invocation (none dispatched, none executed) and no
\* session of its own, and once its rules have run it has been answered once,
\* with an error.
C17_FailedLoginCreatesNoSession ==
  \A t \in Traces : (IsLogin(t) /\ Matching(t) = {}) =>
    /\ Created(t) = {}
    /\ \A item \in pending : item.trace = t => item.action # "Sessioning.createSession"
    /\ Fresh("s", t) \notin DOMAIN sessions
    /\ Quiet(t) =>
         /\ Cardinality(Responses(t)) = 1
         /\ \A j \in Responses(t) : "error" \in DOMAIN log[t][j].input

\* C17's case: a login with a wrong password and one with an unknown username
\* have both been answered with the error of User.login.
C17_Witness ==
  \E t1, t2 \in Traces :
    /\ IsLogin(t1) /\ Get(Seed(t1), "password") = "bad" /\ Quiet(t1)
    /\ IsLogin(t2) /\ Get(Seed(t2), "username") = "nX" /\ Quiet(t2)
    /\ \A t \in {t1, t2} : \E j \in Responses(t) :
         Get(log[t][j].input, "error") = "Invalid username or password."

\* C18: in every reachable state no two users have the same username, also when
\* two registrations of one username, or a registration and a change to that
\* username, interleave between their existence check and their write.
C18_UsernamesUnique ==
  \A u \in DOMAIN users : \A v \in DOMAIN users :
    u # v => users[u].username # users[v].username

\* Two operations passed the existence check for one username; one of them
\* wrote it and the other's write was refused.
Refused(t) ==
  /\ Len(log[t]) = 1
  /\ log[t][1].action \in {"User.registerUser", "User.updateProfile"}
  /\ log[t][1].output = Thrown

Wrote(t, username) ==
  /\ Len(log[t]) = 1
  /\ \/ /\ log[t][1].action = "User.registerUser"
        /\ log[t][1].input["username"] = username
        /\ "user" \in DOMAIN log[t][1].output
     \/ /\ log[t][1].action = "User.updateProfile"
        /\ Get(log[t][1].input, "newUsername") = username
        /\ log[t][1].output = OkOut

C18_Witness ==
  \E t \in Traces : \E w \in Traces :
    /\ Refused(t)
    /\ Wrote(w, "n3")
    /\ \E u \in DOMAIN users : users[u].username = "n3"

\* The frames a suspended rule evaluation hands to its `where`.
IncomingFrames(item) ==
  WhenFrames(RuleNamed(item.rule).when, log[item.trace], item.idx)

\* The rules whose `where` opens with the credential-resolution query step.
CredentialRules == {"DeleteRecipeRequest", "AnnotateRequest"}

\* C19: a credential-resolution query step for a session that is not found or
\* has expired yields zero frames: the incoming frame is dropped.
C19_InvalidSessionYieldsNoFrame ==
  \A item \in awaiting :
    item.rule \in CredentialRules =>
      \A f \in IncomingFrames(item) :
        ~SessionValid(Get(f, "session")) => GetUserInto(<< f >>, "requester") = << >>

\* The underscore-prefixed operations that are called as operations.
QueryOps == ReadQueries \cup {"Sessioning._refreshSession"}

\* C20: every query operation (the underscore-prefixed operations) is
\* read-only: the step that executes it leaves all persisted concept state
\* unchanged.
C20_QueriesAreReadOnly ==
  [][\A t \in Traces : \A q \in QueryOps : Executed(t, q) => dbvars' = dbvars]_vars

\* Frame g is frame f with variables added: every binding of f is in g unchanged.
Extends(g, f) ==
  /\ DOMAIN f \subseteq DOMAIN g
  /\ \A k \in DOMAIN f : g[k] = f[k]

\* C21: within one rule's evaluation a frame is only ever extended with new
\* variables or dropped: every frame a `where` returns, and every frame its
\* credential and resource query steps produce, is an incoming frame with
\* variables added, no existing binding overwritten.
C21_FramesOnlyExtended ==
  \A item \in awaiting :
    /\ \A g \in Range(Where(item.rule, SeqOf(IncomingFrames(item)))) :
         \E f \in IncomingFrames(item) : Extends(g, f)
    /\ \A f \in IncomingFrames(item) :
         \A g \in Range(GetUserInto(<< f >>, "requester")) :
           /\ Extends(g, f)
           /\ \A h \in Range(GetRecipeInto(<< g >>, "recipeDoc")) : Extends(h, g)

\* An update request's evaluation whose surviving frame carries the bindings
\* the queries and the payload added.
C21_Witness ==
  \E item \in awaiting :
    /\ item.rule = "UpdateRecipeDetailsRequest"
    /\ \E g \in Range(Where(item.rule, SeqOf(IncomingFrames(item)))) :
         /\ {"requester", "recipeDoc", "newTitle"} \subseteq DOMAIN g
         /\ \E f \in IncomingFrames(item) : Extends(g, f) /\ DOMAIN f # DOMAIN g

\* The entries of trace t before position i that returned field k with value v.
ReportedBy(t, i, action, k, v) ==
  \E j \in 1..(i - 1) :
    /\ log[t][j].action = action
    /\ Get(log[t][j].output, k) = v

BoundBy(p, e, x) == MatchEntryBind(p, e, EmptyObj)[x]

\* The pairs of entries of tr, one of them the entry at i, that satisfy the
\* rule's two patterns each on its own and give `user` the same value.
AgreeingPairs(when, tr, i) ==
  { ab \in (1..i) \X (1..i) :
      /\ ab[1] = i \/ ab[2] = i
      /\ MatchEntryOk(when[1], tr[ab[1]], EmptyObj)
      /\ MatchEntryOk(when[2], tr[ab[2]], EmptyObj)
      /\ BoundBy(when[1], tr[ab[1]], "user") = BoundBy(when[2], tr[ab[2]], "user") }

AnnotationsInto(f) ==
  QueryStep("Annotation._getAnnotationsForRecipe", << f >>,
            ("recipe" :> "recipe"), ("annotation" :> "annotationDoc"))

AnnotationsOf(f) ==
  Annotation_getAnnotationsForRecipe(ResolveIn(("recipe" :> "recipe"), f))

Last(t) == log'[t][Len(log'[t])]

\* C26: resolving an annotation is idempotent: resolveAnnotation on an existing
\* annotation sets its resolved flag to the given value and returns success,
\* and applied when the annotation already has that value it returns success
\* again and leaves the stored state as it was.
C26_ResolveIdempotent ==
  [][\A t \in Traces :
       (/\ Executed(t, "Annotation.resolveAnnotation")
        /\ Get(Last(t).input, "annotation") \in DOMAIN annotations) =>
         LET a == Last(t).input["annotation"]
         IN /\ Last(t).output = OkOut
            /\ annotations' = [annotations EXCEPT ![a].resolved = Last(t).input["resolved"]]
            /\ annotations[a].resolved = Last(t).input["resolved"] => dbvars' = dbvars]_vars

\* The same value was applied to one annotation twice, both times with success.
C26_Witness ==
  /\ Len(log) = 2
  /\ \E i \in EntriesOf(1, "Annotation.resolveAnnotation") :
     \E j \in EntriesOf(2, "Annotation.resolveAnnotation") :
       /\ log[1][i].input["annotation"] = log[2][j].input["annotation"]
       /\ log[1][i].input["resolved"] = log[2][j].input["resolved"]
       /\ log[1][i].output = OkOut /\ log[2][j].output = OkOut
       /\ log[1][i].input["annotation"] \in DOMAIN annotations
       /\ annotations[log[1][i].input["annotation"]].resolved = log[1][i].input["resolved"]
       /\ log[1][i].input["resolved"] = TRUE

\* The entries of trace t made by the concept action its request rule invokes.
InvokedActions == {"User.login", "Recipe.deleteRecipe", "Annotation.annotate"}

ActionEntries(t) == {i \in 1..Len(log[t]) : log[t][i].action \in InvokedActions}

\* C27: a success response (one carrying no error) is sent for a request only
\* if the concept action invoked in that trace returned a success output.
C27_SuccessResponseOnlyOnSuccess ==
  \A t \in Traces : \A i \in Responses(t) :
    ~IsError(log[t][i].input) =>
      \E j \in ActionEntries(t) : j < i /\ ~IsError(log[t][j].output)

\* The success-path request rules of the notebook operations and, for each,
\* its precondition-error rule.
SuccessPaths ==
  {"InviteMemberRequest", "ShareRecipeRequest", "UnshareRecipeRequest",
   "RemoveMemberRequest", "DeleteNotebookRequest"}

\* The rule yields a surviving frame for the request that opened trace t.
Yields(rule, t) ==
  /\ Matches(RuleNamed(rule).when, log[t], 1) # {}
  /\ Where(rule, Frames(RuleNamed(rule).when, log[t], 1)) # << >>

\* Every check of the success path (credential, resource, relationship) passes
\* for the request that opened trace t.
ChecksPass(rule, t) ==
  RelationshipHolds(rule, Frames(RuleNamed(rule).when, log[t], 1)) # << >>

\* C28: for every request to a protected operation exactly one of its
\* success-path request rule and its precondition-error rule yields a
\* surviving frame, the precondition-error rule if and only if one of the
\* success path's checks fails.
C28_ExactlyOnePath ==
  \A item \in awaiting : \A op \in SuccessPaths :
    item.rule = op \o "_SuccessPath" =>
      /\ Yields(op \o "_SuccessPath", item.trace) # Yields(op \o "_PreconditionError", item.trace)
      /\ Yields(op \o "_PreconditionError", item.trace)
           <=> ~ChecksPass(op \o "_SuccessPath", item.trace)

----------------------------------------------------------------------------
\* Excluded routes

\* passthrough.ts `exclusions`, as the paths Requesting.request records (the
\* "/api" base is the transport's).
exclusions ==
  { "/User/login", "/User/updateProfile",
    "/Recipe/createRecipe", "/Recipe/deleteRecipe", "/Recipe/updateRecipeDetails",
    "/Recipe/draftRecipeWithAI", "/Recipe/applyDraft",
    "/Annotation/annotate", "/Annotation/editAnnotation",
    "/Annotation/resolveAnnotation", "/Annotation/deleteAnnotation",
    "/Notebook/createNotebook", "/Notebook/inviteMember", "/Notebook/removeMember",
    "/Notebook/shareRecipe", "/Notebook/unshareRecipe", "/Notebook/deleteNotebook" }

\* Requests to excluded routes that carry every field of the operation.
UpdateProfileBodies ==
  { Body("/User/updateProfile", ("session" :> s) @@ ("user" :> "u1") @@ ("newUsername" :> "n3")) :
      s \in {"sA", "sX"} }

ExcludedBodies ==
  LoginBodies \cup UpdateProfileBodies
    \cup { Body("/Recipe/deleteRecipe", ("session" :> s) @@ ("recipe" :> r)) :
             s \in Tokens, r \in {"rA", "rX"} }

NextExcluded ==
  \/ \E body \in ExcludedBodies : ClientRequest(body)
  \/ \E item \in awaiting : Evaluate(item)
  \/ \E item \in pending : User_login(item)
  \/ \E item \in pending : Sessioning_createSession(item)
  \/ \E item \in pending : Recipe_deleteRecipe(item)
  \/ \E item \in pending : Annotation_deleteByRecipe(item)
  \/ \E item \in pending : Requesting_respond(item)
  \/ Tick

SpecExcluded == Init /\ [][NextExcluded]_vars

\* C29: every route listed in the passthrough exclusions has a request rule
\* and response rules, so a request to an excluded route is answered rather
\* than left pending: once every rule the request triggered has run, its trace
\* holds a response.
C29_ExcludedRoutesAnswered ==
  \A t \in Traces :
    (IsRequest(t) /\ Seed(t).path \in exclusions /\ Quiet(t)) => Responses(t) # {}

----------------------------------------------------------------------------
\* Creating a notebook

\* The notebook's id is a fresh one; an absent description is stored as null.
Notebook_createNotebook(item) ==
  /\ item.action = "Notebook.createNotebook"
  /\ LET in == item.input
         title == Get(in, "title")
         newNotebookId == Fresh("n", item.trace)
     IN IF title = Undefined \/ title = "" \/ Trim(title) = ""
          THEN /\ Complete(item, ErrOut("Notebook title cannot be empty."))
               /\ UNCHANGED notebooks
          ELSE /\ notebooks' = Put(notebooks, newNotebookId,
                    [owner |-> Get(in, "owner"), title |-> Trim(title),
                     description |-> Stored(IF "description" \in DOMAIN in
                                              THEN Trim(in["description"]) ELSE Undefined),
                     members |-> {Get(in, "owner")}, recipes |-> {}])
               /\ Complete(item, ("notebook" :> newNotebookId))
  /\ UNCHANGED <<users, sessions, recipes, annotations, now>>

CreateNotebookFields(s, title) == ("session" :> s) @@ ("title" :> title)

CreateNotebookBodies ==
  { Body("/Notebook/createNotebook", CreateNotebookFields(s, title)) :
      s \in {"sA", "sX"}, title \in {"T", " "} }
  \cup { Body("/Notebook/createNotebook",
              CreateNotebookFields(s, title) @@ ("description" :> "D")) :
           s \in {"sA", "sX"}, title \in {"T", " "} }

NextCreate ==
  \/ \E body \in CreateNotebookBodies : ClientRequest(body)
  \/ \E item \in awaiting : Evaluate(item)
  \/ \E item \in pending : Notebook_createNotebook(item)
  \/ \E item \in pending : Requesting_respond(item)

SpecCreate == InitNotebook /\ [][NextCreate]_vars

\* The request that opened trace t was answered with the id of a stored notebook.
AnsweredWithNotebook(t) ==
  \E i \in Responses(t) :
    /\ "notebook" \in DOMAIN log[t][i].input
    /\ log[t][i].input["notebook"] \in DOMAIN notebooks

\* C30: a createNotebook request with a valid session and a non-empty title
\* creates a notebook and is answered with its id, whether or not the optional
\* description is supplied.
C30_CreateNotebookAnswered ==
  \A t \in Traces :
    ( /\ IsRequest(t)
      /\ Seed(t).path = "/Notebook/createNotebook"
      /\ SessionValid(Seed(t).session)
      /\ Trim(Seed(t).title) # ""
      /\ Quiet(t) )
    => AnsweredWithNotebook(t)

----------------------------------------------------------------------------
\* Tags

\* $addToSet of the tag and $set of `updated`, on the recipe with this _id.
Recipe_addTag(item) ==
  /\ item.action = "Recipe.addTag"
  /\ LET in == item.input
     IN IF Falsy(in, "recipe")
          THEN /\ Complete(item, ErrOut("Recipe ID must be provided."))
               /\ UNCHANGED recipes
        ELSE IF Falsy(in, "tag") \/ Trim(in["tag"]) = ""
          THEN /\ Complete(item, ErrOut("Tag cannot be empty."))
               /\ UNCHANGED recipes
        ELSE IF in["recipe"] \notin DOMAIN recipes
          THEN /\ Complete(item, ErrOut("Recipe not found."))
               /\ UNCHANGED recipes
        ELSE /\ recipes' = [recipes EXCEPT ![in["recipe"]].tags = @ \cup {in["tag"]},
                                           ![in["recipe"]].updated = now]
             /\ Complete(item, OkOut)
  /\ UNCHANGED <<users, sessions, annotations, notebooks, now>>

\* findOne {_id, tags: tag}, then $pull of the tag and $set of `updated`.
Recipe_removeTag(item) ==
  /\ item.action = "Recipe.removeTag"
  /\ LET in == item.input
     IN IF Falsy(in, "recipe")
          THEN /\ Complete(item, ErrOut("Recipe ID must be provided."))
               /\ UNCHANGED recipes
        ELSE IF Falsy(in, "tag") \/ Trim(in["tag"]) = ""
          THEN /\ Complete(item, ErrOut("Tag cannot be empty."))
               /\ UNCHANGED recipes
        ELSE IF in["recipe"] \notin DOMAIN recipes \/ in["tag"] \notin recipes[in["recipe"]].tags
          THEN /\ Complete(item, ErrOut("Recipe not found or tag is not present on recipe."))
               /\ UNCHANGED recipes
        ELSE /\ recipes' = [recipes EXCEPT ![in["recipe"]].tags = @ \ {in["tag"]},
                                           ![in["recipe"]].updated = now]
             /\ Complete(item, OkOut)
  /\ UNCHANGED <<users, sessions, annotations, notebooks, now>>

\* passthrough.ts lists both routes in `inclusions`: the body goes to the
\* concept action as it is.
TagCalls ==
  { <<op, ("recipe" :> r) @@ ("tag" :> tag)>> :
      op \in {"Recipe.addTag", "Recipe.removeTag"}, r \in {"rA", "rX"}, tag \in {"t", "v", " "} }
  \cup { <<"Recipe.addTag", ("tag" :> "v")>>, <<"Recipe.removeTag", ("tag" :> "t")>> }

NextTags ==
  \/ \E call \in TagCalls : Passthrough(call[1], call[2])
  \/ \E item \in pending : Recipe_addTag(item)
  \/ \E item \in pending : Recipe_removeTag(item)
  \/ Tick

SpecTags == Init /\ [][NextTags]_vars

\* C31: Recipe.addTag and Recipe.removeTag are excluded from passthrough and
\* need authorization: a recipe's tag set changes only in the step of an
\* invocation that a request rule dispatched, never of one a client sent
\* straight to the concept.
C31_TagsChangeOnlyAuthorized ==
  [][ \A r \in DOMAIN recipes :
        (r \in DOMAIN recipes' /\ recipes'[r].tags # recipes[r].tags)
          => \E item \in pending \ pending' :
               item.action \in {"Recipe.addTag", "Recipe.removeTag"} /\ item.by # "passthrough"
    ]_vars

----------------------------------------------------------------------------
\* Bulk removal of annotations

\* passthrough.ts lists /api/Annotation/deleteByRecipe in `inclusions`.
CascadePassthroughs ==
  { <<"Annotation.deleteByRecipe", ("recipeId" :> r)>> : r \in {"rA", "rX"} }

NextCascade ==
  \/ \E body \in DeleteRecipeBodies : ClientRequest(body)
  \/ \E call \in CascadePassthroughs : Passthrough(call[1], call[2])
  \/ \E item \in awaiting : Evaluate(item)
  \/ \E item \in pending : Recipe_deleteRecipe(item)
  \/ \E item \in pending : Annotation_deleteByRecipe(item)
  \/ \E item \in pending : Requesting_respond(item)
  \/ Tick

SpecCascade == Init /\ [][NextCascade]_vars

\* C32: Annotation.deleteByRecipe is executed only by the cascade rule in
\* reaction to a recipe deletion and no client request invokes it, so it never
\* removes the annotations of a recipe that still exists (recipes are only
\* deleted here, so a recipe stored now was stored when the entry was logged).
C32_DeleteByRecipeOnlyCascade ==
  \A t \in Traces : \A i \in EntriesOf(t, "Annotation.deleteByRecipe") :
    /\ log[t][i].by = "CascadeAnnotationDeletion"
    /\ Get(log[t][i].input, "recipeId") \notin DOMAIN recipes

----------------------------------------------------------------------------
\* Who can view a recipe

\* Notebook.md: the members of a notebook are the users who can view the
\* recipes in it; a recipe's owner views it too.
CanView(user, recipe) ==
  /\ recipe \in DOMAIN recipes
  /\ \/ recipes[recipe].owner = user
     \/ \E n \in DOMAIN notebooks :
          recipe \in notebooks[n].recipes /\ user \in notebooks[n].members

\* A database in which u3 can view neither recipe: rA is u2's and is shared in
\* nA with u1 and u2, and carries u1's annotation aA.
InitView ==
  /\ log = << >>
  /\ awaiting = {}
  /\ pending = {}
  /\ users = ("u1" :> [username |-> "n1", password |-> "p1"])
          @@ ("u2" :> [username |-> "n2", password |-> "p2"])
          @@ ("u3" :> [username |-> "n3", password |-> "p3"])
  /\ sessions = ("sA" :> [user |-> "u1", expires |-> SessionTTL])
             @@ ("sC" :> [user |-> "u3", expires |-> SessionTTL])
  /\ recipes = ("rA" :> RecipeOf("u2")) @@ ("rB" :> RecipeOf("u1"))
  /\ annotations = ("aA" :> [author |-> "u1", recipe |-> "rA", text |-> "note",
                            resolved |-> FALSE])
  /\ notebooks = ("nA" :> [owner |-> "u1", members |-> {"u1", "u2"}, recipes |-> {"rA"},
                           title |-> "N", description |-> "D"])
  /\ now = 0

SpecView == InitView /\ [][NextResolve]_vars

\* C33: a resolveAnnotation request changes an annotation's resolved flag only
\* when the annotation exists and the resolving user can view the annotation's
\* recipe.
C33_ResolveOnlyByViewer ==
  [][ \A a \in DOMAIN annotations :
        (a \in DOMAIN annotations' /\ annotations'[a].resolved # annotations[a].resolved)
          => \E item \in pending \ pending' :
               /\ item.action = "Annotation.resolveAnnotation"
               /\ CanView(Get(item.input, "resolver"), annotations[a].recipe)
    ]_vars

----------------------------------------------------------------------------
\* The recipe field each optional field of an update writes.
Target ==
  ("newTitle" :> "title") @@ ("newDescription" :> "description")
    @@ ("newIngredients" :> "ingredients") @@ ("newSteps" :> "steps")

\* The step executes an invocation of the action.
Executes(action) == {item \in pending \ pending' : item.action = action}

\* C34: an updateRecipeDetails request changes only the fields it supplies
\* and the `updated` timestamp, on the recipe it names; every field the
\* request does not supply, and every other recipe, keeps its previous value.
C34_UpdateChangesOnlySupplied ==
  [][ \A item \in Executes("Recipe.updateRecipeDetails") :
        \A r \in DOMAIN recipes :
          /\ r \in DOMAIN recipes'
          /\ r # Get(Seed(item.trace), "recipe") => recipes'[r] = recipes[r]
          /\ recipes'[r].owner = recipes[r].owner
          /\ recipes'[r].tags = recipes[r].tags
          /\ \A k \in OptionalFields :
               IF k \in DOMAIN Seed(item.trace)
                 THEN recipes'[r][Target[k]] \in {recipes[r][Target[k]], Seed(item.trace)[k]}
                 ELSE recipes'[r][Target[k]] = recipes[r][Target[k]]
    ]_vars

\* An update that supplied the title alone went through: the title is the new
\* one and the description the old one.
C34_Witness ==
  \E t \in Traces :
    /\ IsRequest(t)
    /\ DOMAIN Seed(t) \cap OptionalFields = {"newTitle"}
    /\ \E i \in EntriesOf(t, "Recipe.updateRecipeDetails") : ~IsError(log[t][i].output)
    /\ recipes["rA"].title = "T2"
    /\ recipes["rA"].description = "D"

----------------------------------------------------------------------------
\* A removeMember that took user m out of notebook n has completed.
Removed(m, n) ==
  \E t \in Traces : \E i \in EntriesOf(t, "Notebook.removeMember") :
    /\ Get(log[t][i].input, "member") = m
    /\ Get(log[t][i].input, "notebook") = n
    /\ ~IsError(log[t][i].output)

\* C35: the authorization a share request's `where` established still holds
\* when Notebook.shareRecipe takes effect: when the sharer M, who does not own
\* the recipe, has been removed from the notebook after the membership check,
\* executing M's shareRecipe does not add the recipe to the notebook.
C35_ShareRechecksMembership ==
  [][ \A item \in Executes("Notebook.shareRecipe") :
        LET M == Get(item.input, "sharer")
            n == Get(item.input, "notebook")
            r == Get(item.input, "recipe")
        IN ( /\ n \in DOMAIN notebooks /\ r \in DOMAIN recipes
             /\ Removed(M, n)
             /\ M \notin notebooks[n].members
             /\ recipes[r].owner # M )
           => n \in DOMAIN notebooks' /\ notebooks'[n].recipes = notebooks[n].recipes
    ]_vars

----------------------------------------------------------------------------
\* Logout

\* Sessioning.deleteSession has succeeded for the session.
LoggedOut(s) ==
  \E t \in Traces : \E i \in EntriesOf(t, "Sessioning.deleteSession") :
    Get(log[t][i].input, "session") = s /\ ~IsError(log[t][i].output)

\* sA logs out; protected requests carrying sA are sent only after the logout
\* has succeeded, those carrying another token at any time.
NextLogout ==
  \/ Passthrough("Sessioning.deleteSession", ("session" :> "sA"))
  \/ \E body \in DeleteRecipeBodies \cup AnnotateBodies :
       /\ Get(body, "session") = "sA" => LoggedOut("sA")
       /\ ClientRequest(body)
  \/ \E item \in awaiting : Evaluate(item)
  \/ \E item \in pending : Sessioning_deleteSession(item)
  \/ \E item \in pending : Recipe_deleteRecipe(item)
  \/ \E item \in pending : Annotation_annotate(item)
  \/ \E item \in pending : Annotation_deleteByRecipe(item)
  \/ \E item \in pending : Requesting_respond(item)
  \/ Tick

SpecLogout == Init /\ [][NextLogout]_vars

\* The entries of trace t that are concept actions: neither the request nor a
\* response.
ConceptActions(t) ==
  {i \in 1..Len(log[t]) : log[t][i].action \notin {"Requesting.request", "Requesting.respond"}}

\* C36: after Sessioning.deleteSession succeeded for session s, every later
\* protected request carrying s is rejected with an error and causes no
\* concept action (requests carrying sA are sent after its logout only; the
\* request is judged once every rule it triggered has run).
C36_LoggedOutSessionRejected ==
  \A t \in Traces :
    (IsRequest(t) /\ Get(Seed(t), "session") = "sA" /\ LoggedOut("sA") /\ Quiet(t))
      => /\ ConceptActions(t) = {}
         /\ \E i \in Responses(t) : "error" \in DOMAIN log[t][i].input

----------------------------------------------------------------------------
\* Notebook membership

\* Removal requests that name the owner or a member, on the stored notebook
\* and on the one the first request creates.
RemoveAnyBodies ==
  { Body("/Notebook/removeMember",
         ("session" :> s) @@ ("notebook" :> n) @@ ("member" :> m)) :
      s \in {"sA", "sB"}, n \in {"nA", Fresh("n", 1)}, m \in {"u1", "u2"} }

NextMembers ==
  \/ \E body \in CreateNotebookBodies \cup InviteMemberBodies \cup RemoveAnyBodies :
       ClientRequest(body)
  \/ \E item \in awaiting : Evaluate(item)
  \/ \E item \in pending : Notebook_createNotebook(item)
  \/ \E item \in pending : Notebook_inviteMember(item)
  \/ \E item \in pending : Notebook_removeMember(item)
  \/ \E item \in pending : Requesting_respond(item)

SpecMembers == InitNotebook /\ [][NextMembers]_vars

\* C37: in every reachable state every stored notebook's owner is one of its
\* members.
C37_OwnerIsMember ==
  \A n \in DOMAIN notebooks : notebooks[n].owner \in notebooks[n].members

\* The owner of a stored notebook asked to be removed from it and
\* Notebook.removeMember executed on that request.
C37_Witness ==
  \E t \in Traces : \E i \in EntriesOf(t, "Notebook.removeMember") :
    LET in == log[t][i].input
    IN /\ Get(in, "notebook") \in DOMAIN notebooks
       /\ Get(in, "member") = notebooks[in["notebook"]].owner
       /\ Get(in, "owner") = notebooks[in["notebook"]].owner

----------------------------------------------------------------------------
\* Deleting a shared recipe

NextShared ==
  \/ \E body \in DeleteRecipeBodies \cup ShareRecipeBodies : ClientRequest(body)
  \/ \E item \in awaiting : Evaluate(item)
  \/ \E item \in pending : Recipe_deleteRecipe(item)
  \/ \E item \in pending : Annotation_deleteByRecipe(item)
  \/ \E item \in pending : Notebook_shareRecipe(item)
  \/ \E item \in pending : Requesting_respond(item)

SpecShared == InitNotebook /\ [][NextShared]_vars

\* C38: after a recipe has been deleted and every rule the deletion triggered
\* has completed, no notebook's recipes set contains the deleted recipe's id.
C38_DeletedRecipeLeavesNotebooks ==
  \A t \in Traces : \A i \in EntriesOf(t, "Recipe.deleteRecipe") :
    (~IsError(log[t][i].output) /\ Quiet(t))
      => \A n \in DOMAIN notebooks : Get(log[t][i].input, "recipe") \notin notebooks[n].recipes

====
